---- MODULE Spec2Model ----
(***************************************************************************)
(* extractEmbedFilePDF: PDF/A-3 conformance detection and embedded-file    *)
(* extraction over a parsed PDF object graph (lopdf::Document).            *)
(*                                                                         *)
(* The object graph is the state: a table of indirect objects, the result  *)
(* of Document::catalog(), the page list of Document::get_pages() and the  *)
(* trailer dictionary.  Every public operation of PdfAnalyzer is one       *)
(* action; it leaves its return value in `result` and, for extraction with *)
(* persistence, its writes in `disk`.                                      *)
(*                                                                         *)
(* Byte strings and Rust Strings are TLA+ strings.  lib.rs compiles the    *)
(* modules analyzer, embedded and validator; PdfAnalyzer is the one of     *)
(* analyzer.rs.                                                            *)
(***************************************************************************)
EXTENDS Integers, Sequences, FiniteSets, TLC

VARIABLES document, config, disk, result

vars == <<document, config, disk, result>>

(***************************************************************************)
(* lopdf::Object values, tagged by variant.                                *)
(***************************************************************************)
Null == [t |-> "null"]

Integer(n) == [t |-> "int", n |-> n]

Str(s) == [t |-> "str", s |-> s]

Name(s) == [t |-> "name", s |-> s]

Ref(id) == [t |-> "ref", id |-> id]

Arr(a) == [t |-> "arr", a |-> a]

Dict(d) == [t |-> "dict", d |-> d]

\* A stream: its dictionary, its raw (still encoded) content, and what
\* Stream::decompressed_content() yields for it: an error or the decoded bytes.
Stream(d, content, dec) == [t |-> "stream", d |-> d, content |-> content, dec |-> dec]

EmptyDict == <<>>

\* Result<T, E> and Option<T>
Ok(v) == [ok |-> TRUE, v |-> v]

Err(kind, msg) == [ok |-> FALSE, kind |-> kind, msg |-> msg]

Some(v) == [some |-> TRUE, v |-> v]

None == [some |-> FALSE]

\* Dictionary::get(key) is Ok exactly when the key is present.
Has(d, key) == key \in DOMAIN d

\* Object::as_reference / as_dict / as_array / as_str / as_name / as_stream / as_i64
IsRef(o) == o.t = "ref"

IsDict(o) == o.t = "dict"

IsArr(o) == o.t = "arr"

IsStr(o) == o.t = "str"

IsName(o) == o.t = "name"

IsStream(o) == o.t = "stream"

IsInt(o) == o.t = "int"

\* Document::get_object(id) is Ok exactly when the id is in the object table.
HasObject(doc, id) == id \in DOMAIN doc.objects

(***************************************************************************)
(* Strings.                                                                *)
(***************************************************************************)
\* str::contains(pattern): the pattern occurs as a contiguous substring.
Contains(s, p) ==
    \E i \in 1..(Len(s) - Len(p) + 1) : SubSeq(s, i, i + Len(p) - 1) = p

\* A byte that is not valid UTF-8 is written "^"; U+FFFD is written "?".
InvalidByte == "^"

ReplacementChar == "?"

RECURSIVE from_utf8_lossy(_)
\* String::from_utf8_lossy(bytes).into_owned(): every invalid byte becomes U+FFFD.
from_utf8_lossy(b) ==
    IF Len(b) = 0 THEN ""
    ELSE (IF SubSeq(b, 1, 1) = InvalidByte THEN ReplacementChar ELSE SubSeq(b, 1, 1))
         \o from_utf8_lossy(SubSeq(b, 2, Len(b)))

(***************************************************************************)
(* validator.rs                                                            *)
(***************************************************************************)
\* Mutant: the page check and the trailer check swapped.
validate_pdf_structure_TrailerFirst(doc) ==
    IF ~doc.catalog.ok
    THEN Err("InvalidPdf", "missing or invalid catalog: " \o doc.catalog.msg)
    ELSE IF doc.trailer = EmptyDict
    THEN Err("InvalidPdf", "missing trailer dictionary")
    ELSE IF Len(doc.pages) = 0
    THEN Err("InvalidPdf", "document has no pages")
    ELSE Ok(TRUE)

validate_pdf_structure(doc) ==
    IF ~doc.catalog.ok
    THEN Err("InvalidPdf", "missing or invalid catalog: " \o doc.catalog.msg)
    ELSE IF Len(doc.pages) = 0
    THEN Err("InvalidPdf", "document has no pages")
    ELSE IF doc.trailer = EmptyDict
    THEN Err("InvalidPdf", "missing trailer dictionary")
    ELSE Ok(TRUE)

\* Mutant: a lookup failure of get_object is propagated with `?` as ParseError.
read_xmp_metadata_Propagate(doc) ==
    IF ~doc.catalog.ok
    THEN Err("NotPdfA3", "cannot read catalog: " \o doc.catalog.msg)
    ELSE IF ~Has(doc.catalog.v, "Metadata")
    THEN Err("NotPdfA3", "catalog has no /Metadata entry")
    ELSE IF ~IsRef(doc.catalog.v["Metadata"])
    THEN Err("NotPdfA3", "/Metadata entry is not an indirect reference")
    ELSE IF ~HasObject(doc, doc.catalog.v["Metadata"].id)
    THEN Err("ParseError", "object not found")
    ELSE IF ~IsStream(doc.objects[doc.catalog.v["Metadata"].id])
    THEN Err("NotPdfA3", "/Metadata object is not a stream")
    ELSE IF ~doc.objects[doc.catalog.v["Metadata"].id].dec.ok
    THEN Err("NotPdfA3", "cannot decompress /Metadata stream: "
                         \o doc.objects[doc.catalog.v["Metadata"].id].dec.msg)
    ELSE Ok(from_utf8_lossy(doc.objects[doc.catalog.v["Metadata"].id].dec.v))

\* catalog -> /Metadata -> stream -> decompressed bytes -> UTF-8 string
read_xmp_metadata(doc) ==
    IF ~doc.catalog.ok
    THEN Err("NotPdfA3", "cannot read catalog: " \o doc.catalog.msg)
    ELSE IF ~Has(doc.catalog.v, "Metadata")
    THEN Err("NotPdfA3", "catalog has no /Metadata entry")
    ELSE IF ~IsRef(doc.catalog.v["Metadata"])
    THEN Err("NotPdfA3", "/Metadata entry is not an indirect reference")
    ELSE IF ~HasObject(doc, doc.catalog.v["Metadata"].id)
    THEN Err("NotPdfA3", "cannot resolve /Metadata object: object not found")
    ELSE IF ~IsStream(doc.objects[doc.catalog.v["Metadata"].id])
    THEN Err("NotPdfA3", "/Metadata object is not a stream")
    ELSE IF ~doc.objects[doc.catalog.v["Metadata"].id].dec.ok
    THEN Err("NotPdfA3", "cannot decompress /Metadata stream: "
                         \o doc.objects[doc.catalog.v["Metadata"].id].dec.msg)
    ELSE Ok(from_utf8_lossy(doc.objects[doc.catalog.v["Metadata"].id].dec.v))

\* The conformance levels tried, in the order of the `for level in [...]` loops.
Levels == <<"A", "B", "U">>

\* format!(r#"pdfaid:conformance="{level}""#)
LevelAttr(level) == "pdfaid:conformance=\"" \o level \o "\""

\* format!("<pdfaid:conformance>{level}</pdfaid:conformance>")
LevelElem(level) == "<pdfaid:conformance>" \o level \o "</pdfaid:conformance>"

\* format!(r#"pdfaid:part="{part}""#), written out per part in the source
PartAttr(part) == "pdfaid:part=\"" \o part \o "\""

PartElem(part) == "<pdfaid:part>" \o part \o "</pdfaid:part>"

HasPart(xmp, part) == Contains(xmp, PartAttr(part)) \/ Contains(xmp, PartElem(part))

HasLevel(xmp, level) == Contains(xmp, LevelAttr(level)) \/ Contains(xmp, LevelElem(level))

\* Mutant: only the attribute serialisation is recognised.
xmp_declares_pdfa3_AttrOnly(xmp) ==
    /\ Contains(xmp, PartAttr("3"))
    /\ \E i \in 1..Len(Levels) : Contains(xmp, LevelAttr(Levels[i]))

xmp_declares_pdfa3(xmp) ==
    IF ~HasPart(xmp, "3") THEN FALSE
    ELSE \E i \in 1..Len(Levels) : HasLevel(xmp, Levels[i])

\* Mutant: the parts are tried in the order 1, 2, 3.
extract_conformance_level_Ascending(xmp) ==
    LET part == IF HasPart(xmp, "1") THEN "1"
                ELSE IF HasPart(xmp, "2") THEN "2"
                ELSE IF HasPart(xmp, "3") THEN "3"
                ELSE ""
        found == {i \in 1..Len(Levels) : HasLevel(xmp, Levels[i])}
    IN  IF part = "" THEN None
        ELSE IF found = {} THEN None
        ELSE Some("PDF/A-" \o part
                  \o Levels[CHOOSE i \in found : \A j \in found : i <= j])

extract_conformance_level(xmp) ==
    LET part == IF HasPart(xmp, "3") THEN "3"
                ELSE IF HasPart(xmp, "2") THEN "2"
                ELSE IF HasPart(xmp, "1") THEN "1"
                ELSE ""
        found == {i \in 1..Len(Levels) : HasLevel(xmp, Levels[i])}
    IN  IF part = "" THEN None
        ELSE IF found = {} THEN None
        ELSE Some("PDF/A-" \o part
                  \o Levels[CHOOSE i \in found : \A j \in found : i <= j])

\* Mutant: the strict flag is ignored.
validate_pdfa3_NoStrict(doc, cfg) ==
    LET xmp == read_xmp_metadata(doc)
    IN  IF ~xmp.ok THEN xmp ELSE Ok(xmp_declares_pdfa3(xmp.v))

validate_pdfa3(doc, cfg) ==
    LET xmp == read_xmp_metadata(doc)
    IN  IF ~xmp.ok THEN xmp
        ELSE IF cfg.strict_pdfa3_validation /\ ~xmp_declares_pdfa3(xmp.v)
        THEN Err("NotPdfA3", "document XMP does not declare PDF/A-3 conformance")
        ELSE Ok(xmp_declares_pdfa3(xmp.v))

conformance_level(doc) ==
    LET xmp == read_xmp_metadata(doc)
    IN  IF ~xmp.ok THEN None ELSE extract_conformance_level(xmp.v)

(***************************************************************************)
(* analyzer.rs: discovery                                                  *)
(***************************************************************************)
\* The number of nested walk_name_tree frames the thread's stack holds; a call
\* nested deeper overflows the stack and the process is aborted.
StackLimit == 5

\* What a (possibly recursive) call leaves behind: it returned `out`, or the
\* stack overflowed below it.
Returned(out) == [overflow |-> FALSE, out |-> out]

StackOverflow == [overflow |-> TRUE, out |-> <<>>]

RECURSIVE process_names_array_Shifted(_, _)
\* Mutant: after a malformed pair the loop advances by one element only.
process_names_array_Shifted(arr, i) ==
    IF ~(i + 1 <= Len(arr)) THEN <<>>
    ELSE IF IsStr(arr[i]) /\ IsRef(arr[i + 1])
    THEN <<[name |-> from_utf8_lossy(arr[i].s), id |-> arr[i + 1].id]>>
         \o process_names_array_Shifted(arr, i + 2)
    ELSE process_names_array_Shifted(arr, i + 1)

RECURSIVE process_names_array(_, _)
\* The `while i + 1 < arr.len()` loop over [key, value, key, value, ...],
\* from (1-based) position i on.
process_names_array(arr, i) ==
    IF ~(i + 1 <= Len(arr)) THEN <<>>
    ELSE (IF IsStr(arr[i]) /\ IsRef(arr[i + 1])
          THEN <<[name |-> from_utf8_lossy(arr[i].s), id |-> arr[i + 1].id]>>
          ELSE <<>>)
         \o process_names_array(arr, i + 2)

RECURSIVE walk_name_tree(_, _, _)
RECURSIVE walk_kids(_, _, _, _, _)
\* The `for kid in kids` loop of walk_name_tree, from kid i on; `out` is the
\* vector collected so far and `depth` the nesting of the enclosing call.
walk_kids(doc, kids, i, depth, out) ==
    IF i > Len(kids) THEN Returned(out)
    ELSE IF ~IsRef(kids[i]) THEN walk_kids(doc, kids, i + 1, depth, out)
    ELSE LET sub == walk_name_tree(doc, kids[i].id, depth + 1)
         IN  IF sub.overflow THEN StackOverflow
             ELSE walk_kids(doc, kids, i + 1, depth, out \o sub.out)

\* Mutant: the kids are walked before the node's own /Names pairs are emitted.
walk_name_tree_KidsFirst(doc, node_id, depth) ==
    IF depth > StackLimit THEN StackOverflow
    ELSE IF ~HasObject(doc, node_id) THEN Returned(<<>>)
    ELSE IF ~IsDict(doc.objects[node_id]) THEN Returned(<<>>)
    ELSE LET node_dict == doc.objects[node_id].d
             leaf == IF Has(node_dict, "Names") /\ IsArr(node_dict["Names"])
                     THEN process_names_array(node_dict["Names"].a, 1)
                     ELSE <<>>
             kids == IF Has(node_dict, "Kids") /\ IsArr(node_dict["Kids"])
                     THEN node_dict["Kids"].a
                     ELSE <<>>
             below == walk_kids(doc, kids, 1, depth, <<>>)
         IN  IF below.overflow THEN StackOverflow
             ELSE Returned(below.out \o leaf)

walk_name_tree(doc, node_id, depth) ==
    IF depth > StackLimit THEN StackOverflow
    ELSE IF ~HasObject(doc, node_id) THEN Returned(<<>>)
    ELSE IF ~IsDict(doc.objects[node_id]) THEN Returned(<<>>)
    ELSE LET node_dict == doc.objects[node_id].d
             leaf == IF Has(node_dict, "Names") /\ IsArr(node_dict["Names"])
                     THEN process_names_array(node_dict["Names"].a, 1)
                     ELSE <<>>
             kids == IF Has(node_dict, "Kids") /\ IsArr(node_dict["Kids"])
                     THEN node_dict["Kids"].a
                     ELSE <<>>
         IN  walk_kids(doc, kids, 1, depth, leaf)

\* Option<String> of a string-valued, non-empty dictionary entry.
extract_string_from_dict(d, key) ==
    IF Has(d, key) /\ IsStr(d[key]) /\ from_utf8_lossy(d[key].s) # ""
    THEN Some(from_utf8_lossy(d[key].s))
    ELSE None

\* Mutant: /T is tried before /Contents.
annotation_name_TitleFirst(d) ==
    IF extract_string_from_dict(d, "T").some
    THEN extract_string_from_dict(d, "T").v
    ELSE IF extract_string_from_dict(d, "Contents").some
    THEN extract_string_from_dict(d, "Contents").v
    ELSE "attachment"

annotation_name(d) ==
    IF extract_string_from_dict(d, "Contents").some
    THEN extract_string_from_dict(d, "Contents").v
    ELSE IF extract_string_from_dict(d, "T").some
    THEN extract_string_from_dict(d, "T").v
    ELSE "attachment"

\* `names_dict`: /Names of the catalog, inline or behind a reference.
names_dict_of(doc) ==
    IF ~doc.catalog.ok THEN None
    ELSE IF ~Has(doc.catalog.v, "Names") THEN None
    ELSE LET names_val == doc.catalog.v["Names"]
         IN  IF IsRef(names_val)
             THEN IF HasObject(doc, names_val.id) /\ IsDict(doc.objects[names_val.id])
                  THEN Some(doc.objects[names_val.id].d)
                  ELSE None
             ELSE IF IsDict(names_val) THEN Some(names_val.d) ELSE None

\* Source 1 of collect_file_specs: the /Names /EmbeddedFiles name tree.
collect_from_names_tree(doc) ==
    LET nd == names_dict_of(doc)
    IN  IF ~nd.some THEN Returned(<<>>)
        ELSE IF ~Has(nd.v, "EmbeddedFiles") THEN Returned(<<>>)
        ELSE LET ef_val == nd.v["EmbeddedFiles"]
             IN  IF IsRef(ef_val) THEN walk_name_tree(doc, ef_val.id, 1)
                 ELSE IF IsDict(ef_val) /\ Has(ef_val.d, "Names")
                         /\ IsArr(ef_val.d["Names"])
                 THEN Returned(process_names_array(ef_val.d["Names"].a, 1))
                 ELSE Returned(<<>>)

\* The entry of one item of an /Annots array, as a list of zero or one pairs.
process_file_attachment_annotation(doc, item) ==
    IF ~IsRef(item) THEN <<>>
    ELSE IF ~HasObject(doc, item.id) THEN <<>>
    ELSE IF ~IsDict(doc.objects[item.id]) THEN <<>>
    ELSE LET d == doc.objects[item.id].d
         IN  IF Has(d, "Subtype") /\ IsName(d["Subtype"])
                /\ d["Subtype"].s = "FileAttachment"
                /\ Has(d, "FS") /\ IsRef(d["FS"])
             THEN <<[name |-> annotation_name(d), id |-> d["FS"].id]>>
             ELSE <<>>

RECURSIVE extract_file_attachments(_, _, _)
\* The `for item in &arr` loop, from item i on.
extract_file_attachments(doc, arr, i) ==
    IF i > Len(arr) THEN <<>>
    ELSE process_file_attachment_annotation(doc, arr[i])
         \o extract_file_attachments(doc, arr, i + 1)

\* The entries of one page: its /Annots, inline or behind a reference.
process_page_annotations(doc, page_id) ==
    IF ~HasObject(doc, page_id) THEN <<>>
    ELSE IF ~IsDict(doc.objects[page_id]) THEN <<>>
    ELSE IF ~Has(doc.objects[page_id].d, "Annots") THEN <<>>
    ELSE LET annots_val == doc.objects[page_id].d["Annots"]
             arr == IF IsRef(annots_val)
                    THEN IF HasObject(doc, annots_val.id)
                            /\ IsArr(doc.objects[annots_val.id])
                         THEN Some(doc.objects[annots_val.id].a)
                         ELSE None
                    ELSE IF IsArr(annots_val) THEN Some(annots_val.a) ELSE None
         IN  IF arr.some THEN extract_file_attachments(doc, arr.v, 1) ELSE <<>>

RECURSIVE collect_from_annotations(_, _)
\* Source 2 of collect_file_specs: the `for page_id in pages.values()` loop,
\* from page i on.
collect_from_annotations(doc, i) ==
    IF i > Len(doc.pages) THEN <<>>
    ELSE process_page_annotations(doc, doc.pages[i])
         \o collect_from_annotations(doc, i + 1)

\* Mutant: without entries from the name tree the annotations are not searched.
collect_file_specs_NamesRequired(doc) ==
    LET tree == collect_from_names_tree(doc)
    IN  IF tree.overflow THEN StackOverflow
        ELSE IF tree.out = <<>> THEN Returned(<<>>)
        ELSE Returned(tree.out \o collect_from_annotations(doc, 1))

\* Mutant: the annotation entries come first.
collect_file_specs_AnnotationsFirst(doc) ==
    LET tree == collect_from_names_tree(doc)
    IN  IF tree.overflow THEN StackOverflow
        ELSE Returned(collect_from_annotations(doc, 1) \o tree.out)

collect_file_specs(doc) ==
    LET tree == collect_from_names_tree(doc)
    IN  IF tree.overflow THEN StackOverflow
        ELSE Returned(tree.out \o collect_from_annotations(doc, 1))

(***************************************************************************)
(* analyzer.rs: resolving one file specification                           *)
(***************************************************************************)
UpperCase == "ABCDEFGHIJKLMNOPQRSTUVWXYZ"

LowerCase == "abcdefghijklmnopqrstuvwxyz"

Digits == "0123456789"

HexDigits == "0123456789abcdef"

IndexOf(s, c) == CHOOSE i \in 1..Len(s) : SubSeq(s, i, i) = c

\* The value of the byte written c: ASCII for letters, digits, space and dot
\* (the bytes the checksums of the model are made of); InvalidByte is 0xFF.
ByteValue(c) ==
    IF Contains(Digits, c) THEN 47 + IndexOf(Digits, c)
    ELSE IF Contains(UpperCase, c) THEN 64 + IndexOf(UpperCase, c)
    ELSE IF Contains(LowerCase, c) THEN 96 + IndexOf(LowerCase, c)
    ELSE IF c = " " THEN 32
    ELSE IF c = "." THEN 46
    ELSE 255

RECURSIVE hex_encode(_)
\* format!("{b:02x}") of every byte, concatenated.
hex_encode(bytes) ==
    IF Len(bytes) = 0 THEN ""
    ELSE LET b == ByteValue(SubSeq(bytes, 1, 1))
         IN  SubSeq(HexDigits, (b \div 16) + 1, (b \div 16) + 1)
             \o SubSeq(HexDigits, (b % 16) + 1, (b % 16) + 1)
             \o hex_encode(SubSeq(bytes, 2, Len(bytes)))

RECURSIVE to_ascii_lowercase(_)
to_ascii_lowercase(s) ==
    IF Len(s) = 0 THEN ""
    ELSE LET c == SubSeq(s, 1, 1)
         IN  (IF Contains(UpperCase, c)
              THEN SubSeq(LowerCase, IndexOf(UpperCase, c), IndexOf(UpperCase, c))
              ELSE c)
             \o to_ascii_lowercase(SubSeq(s, 2, Len(s)))

RECURSIVE remove_hash(_)
\* s.replace of every # by the empty string
remove_hash(s) ==
    IF Len(s) = 0 THEN ""
    ELSE (IF SubSeq(s, 1, 1) = "#" THEN "" ELSE SubSeq(s, 1, 1))
         \o remove_hash(SubSeq(s, 2, Len(s)))

\* 2^64 does not fit the integers of the model checker: usize is modelled
\* 16 bits wide, and every /Size of the model is below 2^15 in magnitude.
UsizeModulus == 65536

\* `n as usize`: two's-complement reinterpretation of an i64.
as_usize(n) == n % UsizeModulus

\* Mutant: /F is preferred over /UF.
best_filename_AsciiFirst(spec_dict, fallback) ==
    IF Has(spec_dict, "F") /\ IsStr(spec_dict["F"])
       /\ from_utf8_lossy(spec_dict["F"].s) # ""
    THEN from_utf8_lossy(spec_dict["F"].s)
    ELSE IF Has(spec_dict, "UF") /\ IsStr(spec_dict["UF"])
            /\ from_utf8_lossy(spec_dict["UF"].s) # ""
    THEN from_utf8_lossy(spec_dict["UF"].s)
    ELSE fallback

\* Unicode (/UF) > ASCII (/F) > fallback
best_filename(spec_dict, fallback) ==
    IF Has(spec_dict, "UF") /\ IsStr(spec_dict["UF"])
       /\ from_utf8_lossy(spec_dict["UF"].s) # ""
    THEN from_utf8_lossy(spec_dict["UF"].s)
    ELSE IF Has(spec_dict, "F") /\ IsStr(spec_dict["F"])
            /\ from_utf8_lossy(spec_dict["F"].s) # ""
    THEN from_utf8_lossy(spec_dict["F"].s)
    ELSE fallback

\* Some(string) of a string-valued entry of d (empty strings included).
string_entry(d, key) ==
    IF Has(d, key) /\ IsStr(d[key]) THEN Some(from_utf8_lossy(d[key].s)) ELSE None

\* EmbeddedFileMetadata::default()
DefaultMetadata ==
    [mime_type |-> None, description |-> None, modification_date |-> None,
     creation_date |-> None, size |-> None, checksum |-> None]

\* Mutant: the entries of /Params are read one after the other, and the first
\* one that is missing ends the reading.
read_metadata_Chained(spec_dict, stream_dict) ==
    LET has_params == Has(stream_dict, "Params") /\ IsDict(stream_dict["Params"])
        params == IF has_params THEN stream_dict["Params"].d ELSE EmptyDict
        mod == Has(params, "ModDate")
        created == mod /\ Has(params, "CreationDate")
        sized == created /\ Has(params, "Size")
    IN  [description |-> string_entry(spec_dict, "Desc"),
         mime_type |->
             IF Has(spec_dict, "Subtype") /\ IsName(spec_dict["Subtype"])
             THEN Some(to_ascii_lowercase(remove_hash(
                          from_utf8_lossy(spec_dict["Subtype"].s))))
             ELSE None,
         modification_date |-> string_entry(params, "ModDate"),
         creation_date |-> IF mod THEN string_entry(params, "CreationDate") ELSE None,
         size |-> IF created /\ Has(params, "Size") /\ IsInt(params["Size"])
                  THEN Some(as_usize(params["Size"].n))
                  ELSE None,
         checksum |-> IF sized /\ Has(params, "CheckSum") /\ IsStr(params["CheckSum"])
                      THEN Some(hex_encode(params["CheckSum"].s))
                      ELSE None]

read_metadata(spec_dict, stream_dict) ==
    LET has_params == Has(stream_dict, "Params") /\ IsDict(stream_dict["Params"])
        params == IF has_params THEN stream_dict["Params"].d ELSE EmptyDict
    IN  [description |-> string_entry(spec_dict, "Desc"),
         mime_type |->
             IF Has(spec_dict, "Subtype") /\ IsName(spec_dict["Subtype"])
             THEN Some(to_ascii_lowercase(remove_hash(
                          from_utf8_lossy(spec_dict["Subtype"].s))))
             ELSE None,
         modification_date |-> string_entry(params, "ModDate"),
         creation_date |-> string_entry(params, "CreationDate"),
         size |-> IF Has(params, "Size") /\ IsInt(params["Size"])
                  THEN Some(as_usize(params["Size"].n))
                  ELSE None,
         checksum |-> IF Has(params, "CheckSum") /\ IsStr(params["CheckSum"])
                      THEN Some(hex_encode(params["CheckSum"].s))
                      ELSE None]

\* ExtractError::ExtractionError(name, reason)
ExtractionError(name, reason) ==
    [ok |-> FALSE, kind |-> "ExtractionError", msg |-> reason, name |-> name]

\* The /EF dictionary of a specification: inline, or behind a reference.
resolve_ef_dictionary(doc, spec_dict, name) ==
    IF ~Has(spec_dict, "EF") THEN ExtractionError(name, "missing /EF entry")
    ELSE LET ef_val == spec_dict["EF"]
         IN  IF IsRef(ef_val)
             THEN IF ~HasObject(doc, ef_val.id)
                  THEN Err("ParseError", "object not found")
                  ELSE IF ~IsDict(doc.objects[ef_val.id])
                  THEN ExtractionError(name, "/EF reference is not a dict")
                  ELSE Ok(doc.objects[ef_val.id].d)
             ELSE IF ~IsDict(ef_val)
             THEN ExtractionError(name, "/EF is not a dictionary")
             ELSE Ok(ef_val.d)

\* Mutant: /F of the /EF dictionary is preferred over /UF.
extract_embedded_stream_AsciiFirst(doc, ef_dict, name) ==
    IF ~Has(ef_dict, "UF") /\ ~Has(ef_dict, "F")
    THEN ExtractionError(name, "/EF has neither /F nor /UF")
    ELSE LET stream_ref == IF Has(ef_dict, "F") THEN ef_dict["F"] ELSE ef_dict["UF"]
         IN  IF ~IsRef(stream_ref)
             THEN ExtractionError(name, "/EF stream entry is not a reference")
             ELSE IF ~HasObject(doc, stream_ref.id)
             THEN Err("ParseError", "object not found")
             ELSE IF ~IsStream(doc.objects[stream_ref.id])
             THEN ExtractionError(name, "embedded stream object is not a stream")
             ELSE Ok(doc.objects[stream_ref.id])

\* The stream object named by /EF: /UF preferred over /F.
extract_embedded_stream(doc, ef_dict, name) ==
    IF ~Has(ef_dict, "UF") /\ ~Has(ef_dict, "F")
    THEN ExtractionError(name, "/EF has neither /F nor /UF")
    ELSE LET stream_ref == IF Has(ef_dict, "UF") THEN ef_dict["UF"] ELSE ef_dict["F"]
         IN  IF ~IsRef(stream_ref)
             THEN ExtractionError(name, "/EF stream entry is not a reference")
             ELSE IF ~HasObject(doc, stream_ref.id)
             THEN Err("ParseError", "object not found")
             ELSE IF ~IsStream(doc.objects[stream_ref.id])
             THEN ExtractionError(name, "embedded stream object is not a stream")
             ELSE Ok(doc.objects[stream_ref.id])

\* Mutant: a stream that does not decompress fails the resolve.
parse_file_spec_FailOnDecompress(doc, name, spec_id) ==
    IF ~HasObject(doc, spec_id) THEN Err("ParseError", "object not found")
    ELSE IF ~IsDict(doc.objects[spec_id])
    THEN ExtractionError(name, "file spec is not a dictionary")
    ELSE LET spec_dict == doc.objects[spec_id].d
             ef == resolve_ef_dictionary(doc, spec_dict, name)
         IN  IF ~ef.ok THEN ef
             ELSE LET st == extract_embedded_stream(doc, ef.v, name)
                  IN  IF ~st.ok THEN st
                      ELSE IF ~st.v.dec.ok
                      THEN ExtractionError(name, "cannot decompress stream")
                      ELSE Ok([filename |-> best_filename(spec_dict, name),
                               data |-> st.v.dec.v,
                               metadata |-> read_metadata(spec_dict, st.v.d)])

parse_file_spec(doc, name, spec_id) ==
    IF ~HasObject(doc, spec_id) THEN Err("ParseError", "object not found")
    ELSE IF ~IsDict(doc.objects[spec_id])
    THEN ExtractionError(name, "file spec is not a dictionary")
    ELSE LET spec_dict == doc.objects[spec_id].d
             ef == resolve_ef_dictionary(doc, spec_dict, name)
         IN  IF ~ef.ok THEN ef
             ELSE LET st == extract_embedded_stream(doc, ef.v, name)
                  IN  IF ~st.ok THEN st
                      ELSE Ok([filename |-> best_filename(spec_dict, name),
                               data |-> IF st.v.dec.ok THEN st.v.dec.v
                                        ELSE st.v.content,
                               metadata |-> read_metadata(spec_dict, st.v.d)])

(***************************************************************************)
(* The file system seen by std::fs: the directories that exist, the        *)
(* content of every file, and the writes made so far, in order.            *)
(***************************************************************************)
EmptyDisk == [dirs |-> {}, files |-> <<>>, writes |-> <<>>]

\* Path::new(dir).join(filename): an absolute filename replaces dir.
path_join(dir, filename) ==
    IF Len(filename) > 0 /\ SubSeq(filename, 1, 1) = "/" THEN filename
    ELSE IF dir = "" THEN filename
    ELSE IF SubSeq(dir, Len(dir), Len(dir)) = "/" THEN dir \o filename
    ELSE dir \o "/" \o filename

\* The positions of the separators of a path.
Separators(path) == {i \in 1..Len(path) : SubSeq(path, i, i) = "/"}

RECURSIVE split_path(_, _)
\* The pieces of a path between its separators; `cur` is the piece being read.
split_path(path, cur) ==
    IF Len(path) = 0 THEN <<cur>>
    ELSE IF SubSeq(path, 1, 1) = "/"
    THEN <<cur>> \o split_path(SubSeq(path, 2, Len(path)), "")
    ELSE split_path(SubSeq(path, 2, Len(path)), cur \o SubSeq(path, 1, 1))

\* Path::components without the root: empty pieces and "." are dropped.
components(path) ==
    SelectSeq(split_path(path, ""), LAMBDA c : c # "" /\ c # ".")

is_absolute(path) == Len(path) > 0 /\ SubSeq(path, 1, 1) = "/"

RECURSIVE resolve_components(_, _, _)
\* Path resolution by the operating system (no symbolic links): ".." leaves
\* the directory reached so far; the parent of the root is the root.
resolve_components(comps, stack, abs) ==
    IF comps = <<>> THEN stack
    ELSE IF Head(comps) # ".."
    THEN resolve_components(Tail(comps), Append(stack, Head(comps)), abs)
    ELSE IF stack # <<>> /\ stack[Len(stack)] # ".."
    THEN resolve_components(Tail(comps), SubSeq(stack, 1, Len(stack) - 1), abs)
    ELSE IF abs THEN resolve_components(Tail(comps), stack, abs)
    ELSE resolve_components(Tail(comps), Append(stack, ".."), abs)

RECURSIVE join_components(_)
join_components(comps) ==
    IF comps = <<>> THEN ""
    ELSE IF Len(comps) = 1 THEN comps[1]
    ELSE comps[1] \o "/" \o join_components(Tail(comps))

\* The file-system object a path names: "/" is the root, "" the current
\* directory, everything else is written relative to one of them.
canonical(path) ==
    (IF is_absolute(path) THEN "/" ELSE "")
    \o join_components(resolve_components(components(path), <<>>, is_absolute(path)))

\* The directories that exist: the ones created, the root, the current
\* directory and its parent.
dir_exists(dsk, c) == c \in dsk.dirs \cup {"", "/", ".."}

\* std::fs::create_dir_all(dir) fails when dir or an ancestor of it is a file.
can_create_dir_all(dsk, dir) ==
    LET c == canonical(dir)
    IN  /\ c \notin DOMAIN dsk.files
        /\ \A i \in Separators(c) \ {1} : SubSeq(c, 1, i - 1) \notin DOMAIN dsk.files

\* std::fs::create_dir_all(dir): dir and every ancestor of it exist afterwards.
create_dir_all(dsk, dir) ==
    LET c == canonical(dir)
        made == {c} \cup {SubSeq(c, 1, i - 1) : i \in Separators(c) \ {1}}
    IN  [dsk EXCEPT !.dirs = @ \cup (made \ {"", "/", ".."})]

\* std::fs::write(dest, data) succeeds when dest names no directory and every
\* directory on the way to it exists.
can_write(dsk, dest) ==
    /\ dest # ""
    /\ ~dir_exists(dsk, canonical(dest))
    /\ \A i \in Separators(dest) \ {1} :
           dir_exists(dsk, canonical(SubSeq(dest, 1, i - 1)))

\* Mutant: an existing file keeps its content.
fs_write_KeepFirst(dsk, dest, data) ==
    [dsk EXCEPT !.files = @ @@ (canonical(dest) :> data),
                !.writes = Append(@, [path |-> canonical(dest), data |-> data])]

\* Mutant: the data is appended to an existing file.
fs_write_Append(dsk, dest, data) ==
    [dsk EXCEPT !.files = (canonical(dest) :>
                              (IF canonical(dest) \in DOMAIN @
                               THEN @[canonical(dest)] \o data ELSE data)) @@ @,
                !.writes = Append(@, [path |-> canonical(dest), data |-> data])]

\* std::fs::write(dest, data): the file is created or replaced.
fs_write(dsk, dest, data) ==
    [dsk EXCEPT !.files = (canonical(dest) :> data) @@ @,
                !.writes = Append(@, [path |-> canonical(dest), data |-> data])]

\* std::fs::read(path)
fs_read(dsk, path) ==
    IF canonical(path) \in DOMAIN dsk.files
    THEN Ok(dsk.files[canonical(path)])
    ELSE Err("IoError", "not found")

\* Mutant: the files are written whenever a directory is configured.
write_file_if_configured_DirOnly(cfg, dsk, file, fault) ==
    IF ~cfg.output_directory.some THEN [ok |-> TRUE, disk |-> dsk]
    ELSE LET dir == cfg.output_directory.v
             dest == path_join(dir, file.filename)
         IN  IF fault = "create_dir_all" \/ ~can_create_dir_all(dsk, dir)
             THEN [ok |-> FALSE, disk |-> dsk]
             ELSE IF fault = "write" \/ ~can_write(create_dir_all(dsk, dir), dest)
             THEN [ok |-> FALSE, disk |-> create_dir_all(dsk, dir)]
             ELSE [ok |-> TRUE,
                   disk |-> fs_write(create_dir_all(dsk, dir), dest, file.data)]

\* The persistence block of extract_embedded_files for one resolved file.
\* `fault` is what the operating system does to this attempt: "none", or the
\* call that fails for a reason outside the model (permissions, full disk).
write_file_if_configured(cfg, dsk, file, fault) ==
    IF ~cfg.extract_to_disk THEN [ok |-> TRUE, disk |-> dsk]
    ELSE IF ~cfg.output_directory.some THEN [ok |-> TRUE, disk |-> dsk]
    ELSE LET dir == cfg.output_directory.v
             dest == path_join(dir, file.filename)
         IN  IF fault = "create_dir_all" \/ ~can_create_dir_all(dsk, dir)
             THEN [ok |-> FALSE, disk |-> dsk]
             ELSE IF fault = "write" \/ ~can_write(create_dir_all(dsk, dir), dest)
             THEN [ok |-> FALSE, disk |-> create_dir_all(dsk, dir)]
             ELSE [ok |-> TRUE,
                   disk |-> fs_write(create_dir_all(dsk, dir), dest, file.data)]

(***************************************************************************)
(* embedded.rs: EmbeddedFile                                               *)
(***************************************************************************)
\* save_to_disk(output_dir): io::Result<()> and the file system it leaves.
save_to_disk(file, output_dir, dsk, fault) ==
    IF fault = "create_dir_all" \/ ~can_create_dir_all(dsk, output_dir)
    THEN [ok |-> FALSE, disk |-> dsk]
    ELSE IF fault = "write"
            \/ ~can_write(create_dir_all(dsk, output_dir),
                          path_join(output_dir, file.filename))
    THEN [ok |-> FALSE, disk |-> create_dir_all(dsk, output_dir)]
    ELSE [ok |-> TRUE,
          disk |-> fs_write(create_dir_all(dsk, output_dir),
                            path_join(output_dir, file.filename), file.data)]

\* Path::file_name: the last component, unless the path ends in "..".
file_name(path) ==
    LET comps == components(path)
    IN  IF comps = <<>> THEN None
        ELSE IF comps[Len(comps)] = ".." THEN None
        ELSE Some(comps[Len(comps)])

\* Path::extension: what follows the last dot of the file name; None without
\* a dot, and when the only dot is the first character.
path_extension(path) ==
    LET fname == file_name(path)
    IN  IF ~fname.some THEN None
        ELSE LET dots == {i \in 1..Len(fname.v) : SubSeq(fname.v, i, i) = "."}
                 last == CHOOSE i \in dots : \A j \in dots : j <= i
             IN  IF dots = {} THEN None
                 ELSE IF last = 1 THEN None
                 ELSE Some(SubSeq(fname.v, last + 1, Len(fname.v)))

\* Path::new(&self.filename).extension().and_then(|e| e.to_str())
extension(file) == path_extension(file.filename)

\* str::eq_ignore_ascii_case
eq_ignore_ascii_case(a, b) == to_ascii_lowercase(a) = to_ascii_lowercase(b)

\* Mutant: the extension is compared as it is written.
has_extension_CaseSensitive(file, ext) ==
    IF extension(file).some THEN extension(file).v = ext ELSE FALSE

has_extension(file, ext) ==
    IF extension(file).some THEN eq_ignore_ascii_case(extension(file).v, ext)
    ELSE FALSE

(***************************************************************************)
(* analyzer.rs: extract_embedded_files                                     *)
(***************************************************************************)
\* Mutant: a file of exactly the limit is rejected too.
validate_file_size_Inclusive(cfg, file) ==
    ~(cfg.max_embedded_file_size.some
      /\ Len(file.data) >= cfg.max_embedded_file_size.v)

\* The size check of one resolved file.
validate_file_size(cfg, file) ==
    ~(cfg.max_embedded_file_size.some
      /\ Len(file.data) > cfg.max_embedded_file_size.v)

RECURSIVE extract_loop_StopAtFailure(_, _, _, _, _, _, _)
\* Mutant: the loop ends at the first entry that fails to resolve.
extract_loop_StopAtFailure(doc, cfg, specs, i, results, dsk, io) ==
    IF i > Len(specs)
    THEN [r |-> IF results = <<>> THEN Err("NoEmbeddedFiles", "") ELSE Ok(results),
          disk |-> dsk]
    ELSE LET parsed == parse_file_spec(doc, specs[i].name, specs[i].id)
         IN  IF ~parsed.ok
             THEN [r |-> IF results = <<>> THEN Err("NoEmbeddedFiles", "")
                         ELSE Ok(results),
                   disk |-> dsk]
             ELSE IF ~validate_file_size(cfg, parsed.v)
             THEN [r |-> Err("FileSizeExceeded", ""), disk |-> dsk]
             ELSE LET w == write_file_if_configured(cfg, dsk, parsed.v,
                               IF io.at = i THEN io.fault ELSE "none")
                  IN  IF ~w.ok THEN [r |-> Err("IoError", ""), disk |-> w.disk]
                      ELSE extract_loop_StopAtFailure(doc, cfg, specs, i + 1,
                               Append(results, parsed.v), w.disk, io)

RECURSIVE extract_loop_KeepEmpty(_, _, _, _, _, _, _)
\* Mutant: the final `results.is_empty()` check is missing.
extract_loop_KeepEmpty(doc, cfg, specs, i, results, dsk, io) ==
    IF i > Len(specs)
    THEN [r |-> Ok(results), disk |-> dsk]
    ELSE LET parsed == parse_file_spec(doc, specs[i].name, specs[i].id)
         IN  IF ~parsed.ok
             THEN extract_loop_KeepEmpty(doc, cfg, specs, i + 1, results, dsk, io)
             ELSE IF ~validate_file_size(cfg, parsed.v)
             THEN [r |-> Err("FileSizeExceeded", ""), disk |-> dsk]
             ELSE LET w == write_file_if_configured(cfg, dsk, parsed.v,
                               IF io.at = i THEN io.fault ELSE "none")
                  IN  IF ~w.ok THEN [r |-> Err("IoError", ""), disk |-> w.disk]
                      ELSE extract_loop_KeepEmpty(doc, cfg, specs, i + 1,
                               Append(results, parsed.v), w.disk, io)

RECURSIVE extract_loop_WriteFirst(_, _, _, _, _, _, _)
\* Mutant: a resolved file is written before its size is checked.
extract_loop_WriteFirst(doc, cfg, specs, i, results, dsk, io) ==
    IF i > Len(specs)
    THEN [r |-> IF results = <<>> THEN Err("NoEmbeddedFiles", "") ELSE Ok(results),
          disk |-> dsk]
    ELSE LET parsed == parse_file_spec(doc, specs[i].name, specs[i].id)
         IN  IF ~parsed.ok
             THEN extract_loop_WriteFirst(doc, cfg, specs, i + 1, results, dsk, io)
             ELSE LET w == write_file_if_configured(cfg, dsk, parsed.v,
                               IF io.at = i THEN io.fault ELSE "none")
                  IN  IF ~w.ok THEN [r |-> Err("IoError", ""), disk |-> w.disk]
                      ELSE IF ~validate_file_size(cfg, parsed.v)
                      THEN [r |-> Err("FileSizeExceeded", ""), disk |-> w.disk]
                      ELSE extract_loop_WriteFirst(doc, cfg, specs, i + 1,
                               Append(results, parsed.v), w.disk, io)

RECURSIVE extract_loop_SkipOnIoError(_, _, _, _, _, _, _)
\* Mutant: a file that cannot be persisted is skipped like one that does not
\* resolve.
extract_loop_SkipOnIoError(doc, cfg, specs, i, results, dsk, io) ==
    IF i > Len(specs)
    THEN [r |-> IF results = <<>> THEN Err("NoEmbeddedFiles", "") ELSE Ok(results),
          disk |-> dsk]
    ELSE LET parsed == parse_file_spec(doc, specs[i].name, specs[i].id)
         IN  IF ~parsed.ok
             THEN extract_loop_SkipOnIoError(doc, cfg, specs, i + 1, results, dsk, io)
             ELSE IF ~validate_file_size(cfg, parsed.v)
             THEN [r |-> Err("FileSizeExceeded", ""), disk |-> dsk]
             ELSE LET w == write_file_if_configured(cfg, dsk, parsed.v,
                               IF io.at = i THEN io.fault ELSE "none")
                  IN  IF ~w.ok
                      THEN extract_loop_SkipOnIoError(doc, cfg, specs, i + 1,
                               results, w.disk, io)
                      ELSE extract_loop_SkipOnIoError(doc, cfg, specs, i + 1,
                               Append(results, parsed.v), w.disk, io)

RECURSIVE extract_loop(_, _, _, _, _, _, _)
\* The `for (name, spec_id) in specs` loop from entry i on, and the return that
\* follows it.  `io` names the entry whose persistence the operating system
\* fails, and the failing call.
extract_loop(doc, cfg, specs, i, results, dsk, io) ==
    IF i > Len(specs)
    THEN [r |-> IF results = <<>> THEN Err("NoEmbeddedFiles", "") ELSE Ok(results),
          disk |-> dsk]
    ELSE LET parsed == parse_file_spec(doc, specs[i].name, specs[i].id)
         IN  IF ~parsed.ok
             THEN extract_loop(doc, cfg, specs, i + 1, results, dsk, io)
             ELSE IF ~validate_file_size(cfg, parsed.v)
             THEN [r |-> Err("FileSizeExceeded", ""), disk |-> dsk]
             ELSE LET w == write_file_if_configured(cfg, dsk, parsed.v,
                               IF io.at = i THEN io.fault ELSE "none")
                  IN  IF ~w.ok THEN [r |-> Err("IoError", ""), disk |-> w.disk]
                      ELSE extract_loop(doc, cfg, specs, i + 1,
                               Append(results, parsed.v), w.disk, io)

\* Mutant: with strict_pdfa3_validation, a document that is not PDF/A-3 is
\* not extracted from.
extract_embedded_files_StrictGate(doc, cfg, dsk, io) ==
    LET specs == collect_file_specs(doc)
    IN  IF cfg.strict_pdfa3_validation /\ ~validate_pdfa3(doc, cfg).ok
        THEN [returned |-> TRUE, r |-> validate_pdfa3(doc, cfg), disk |-> dsk]
        ELSE IF specs.overflow THEN [returned |-> FALSE, r |-> Null, disk |-> dsk]
        ELSE IF specs.out = <<>>
        THEN [returned |-> TRUE, r |-> Err("NoEmbeddedFiles", ""), disk |-> dsk]
        ELSE LET done == extract_loop(doc, cfg, specs.out, 1, <<>>, dsk, io)
             IN  [returned |-> TRUE, r |-> done.r, disk |-> done.disk]

\* What a call of extract_embedded_files leaves: whether it returned at all,
\* its return value, and the file system.
extract_embedded_files(doc, cfg, dsk, io) ==
    LET specs == collect_file_specs(doc)
    IN  IF specs.overflow THEN [returned |-> FALSE, r |-> Null, disk |-> dsk]
        ELSE IF specs.out = <<>>
        THEN [returned |-> TRUE, r |-> Err("NoEmbeddedFiles", ""), disk |-> dsk]
        ELSE LET done == extract_loop(doc, cfg, specs.out, 1, <<>>, dsk, io)
             IN  [returned |-> TRUE, r |-> done.r, disk |-> done.disk]

(***************************************************************************)
(* Bounds of the documents and configurations explored.                    *)
(***************************************************************************)
\* Entries of the /Names array of the name-tree root (extraction).
MaxEntries == 2

\* Longest embedded payload, and largest max_embedded_file_size, in bytes.
MaxLen == 2

\* Fragments an XMP packet is concatenated from.
MaxFrags == 3

\* Nodes of the name tree, and /Kids references in the whole tree (discovery).
MaxNodes == 2

MaxEdges == 3

\* All sequences over S of length at most n.
SeqsUpTo(S, n) == UNION {[1..k -> S] : k \in 0..n}

RECURSIVE Flatten(_)
\* The concatenation of a sequence of sequences.
Flatten(ss) == IF ss = <<>> THEN <<>> ELSE Head(ss) \o Flatten(Tail(ss))

RECURSIVE Repeat(_, _)
\* n copies of the string c.
Repeat(c, n) == IF n = 0 THEN "" ELSE c \o Repeat(c, n - 1)

(***************************************************************************)
(* Documents.  Object numbers: 1 catalog, 2.. name-tree nodes, 10 and 11   *)
(* file specifications, 20+L the embedded stream of L bytes, 30 the page,  *)
(* 40 the XMP metadata stream.                                             *)
(***************************************************************************)
\* The embedded stream whose decoded content is L bytes long; its raw content
\* is the (longer) encoded form.
EmbeddedStream(L) ==
    Stream(EmptyDict, "enc:" \o Repeat("x", L), Ok(Repeat("x", L)))

StreamObjects == [id \in {20 + L : L \in 0..MaxLen} |-> EmbeddedStream(id - 20)]

\* The shapes of a file specification object: it resolves to L bytes (with
\* different filename entries per L), its /EF has neither /F nor /UF, or the
\* object is missing from the table.
SpecShapes ==
    [kind : {"data"}, len : 0..MaxLen]
    \cup {[kind |-> "no_stream", len |-> 0], [kind |-> "absent", len |-> 0]}

FileSpec(shape) ==
    CASE shape.kind = "no_stream" ->
             Dict([F |-> Str("a.txt"), EF |-> Dict(EmptyDict)])
      [] shape.kind = "data" /\ shape.len = 0 ->
             Dict([EF |-> Dict([F |-> Ref(20)])])
      [] shape.kind = "data" /\ shape.len = 1 ->
             Dict([F |-> Str("a.txt"), EF |-> Dict([F |-> Ref(21)])])
      [] shape.kind = "data" /\ shape.len = 2 ->
             Dict([UF |-> Str("b.xml"), F |-> Str("a.txt"),
                   EF |-> Dict([UF |-> Ref(22), F |-> Ref(21)])])
      [] OTHER ->
             Dict([UF |-> Str(""), EF |-> Dict([F |-> Ref(20 + shape.len)])])

\* The object table entries of the specifications 10 and 11.
SpecObjects(shape10, shape11) ==
    [id \in {i \in {10, 11} :
                (IF i = 10 THEN shape10 ELSE shape11).kind # "absent"}
        |-> FileSpec(IF id = 10 THEN shape10 ELSE shape11)]

\* A discovery entry as it stands in a /Names array: key, then reference.
NamePair(e) == <<Str(e.key), Ref(e.id)>>

LeafEntries == [key : {"", "n.bin"}, id : {10, 11}]

\* A document whose catalog has an inline /Names with /EmbeddedFiles 2 0 R, a
\* single leaf node listing `entries`, and one page without annotations.
ExtractionDocument(entries, shape10, shape11) ==
    [catalog |-> Ok([Names |-> Dict([EmbeddedFiles |-> Ref(2)])]),
     pages |-> <<30>>,
     trailer |-> [Root |-> Ref(1)],
     objects |-> (2 :> Dict([Names |-> Arr(Flatten([i \in DOMAIN entries |->
                                                  NamePair(entries[i])]))]))
                 @@ (30 :> Dict(EmptyDict))
                 @@ SpecObjects(shape10, shape11)
                 @@ StreamObjects]

ExtractionDocuments ==
    {ExtractionDocument(entries, s10, s11) :
        entries \in SeqsUpTo(LeafEntries, MaxEntries),
        s10 \in SpecShapes, s11 \in SpecShapes}

\* ExtractorConfig values for extraction; ExtractorConfig::default() is among
\* them.
ExtractionConfigs ==
    [strict_pdfa3_validation : {FALSE},
     max_embedded_file_size : {None} \cup {Some(m) : m \in 0..MaxLen},
     extract_to_disk : BOOLEAN,
     output_directory : {None, Some("out")}]

\* ExtractorConfig::default() with either value of the strict flag.
ValidationConfigs ==
    [strict_pdfa3_validation : BOOLEAN,
     max_embedded_file_size : {None},
     extract_to_disk : {FALSE},
     output_directory : {None}]

\* What the operating system does to the persistence of an extraction.
IoOutcomes(cfg) ==
    {[at |-> 0, fault |-> "none"]}
    \cup (IF cfg.extract_to_disk /\ cfg.output_directory.some
          THEN [at : 1..MaxEntries, fault : {"create_dir_all", "write"}]
          ELSE {})

\* `result` is the last call and what it left: `returned` tells whether it
\* returned at all (a stack overflow aborts the process), and one field holds
\* the return value, named after its type: r for Result<bool>, count for
\* Result<usize>, files for Result<Vec<EmbeddedFile>>, level for
\* Option<String>.  An extraction keeps, as `fault`, what the operating system
\* did to its persistence.
NoResult == [op |-> "none", returned |-> TRUE]

\* The call `op` overflowed the stack.
Aborted(op) == [op |-> op, returned |-> FALSE]

\* A behaviour is one call on a freshly loaded document.
Idle == result.op = "none"

(***************************************************************************)
(* The public operations of PdfAnalyzer.                                   *)
(***************************************************************************)
is_pdf ==
    /\ Idle
    /\ result' = [op |-> "is_pdf", returned |-> TRUE,
                  r |-> validate_pdf_structure(document)]
    /\ UNCHANGED <<document, config, disk>>

is_pdfa3 ==
    /\ Idle
    /\ result' = [op |-> "is_pdfa3", returned |-> TRUE,
                  r |-> validate_pdfa3(document, config)]
    /\ UNCHANGED <<document, config, disk>>

ConformanceLevel ==
    /\ Idle
    /\ result' = [op |-> "conformance_level", returned |-> TRUE,
                  level |-> conformance_level(document)]
    /\ UNCHANGED <<document, config, disk>>

has_embedded_files ==
    /\ Idle
    /\ LET specs == collect_file_specs(document)
       IN  result' = IF specs.overflow THEN Aborted("has_embedded_files")
                     ELSE [op |-> "has_embedded_files", returned |-> TRUE,
                           r |-> Ok(specs.out # <<>>)]
    /\ UNCHANGED <<document, config, disk>>

count_embedded_files ==
    /\ Idle
    /\ LET specs == collect_file_specs(document)
       IN  result' = IF specs.overflow THEN Aborted("count_embedded_files")
                     ELSE [op |-> "count_embedded_files", returned |-> TRUE,
                           count |-> Ok(Len(specs.out))]
    /\ UNCHANGED <<document, config, disk>>

ExtractEmbeddedFiles ==
    /\ Idle
    /\ \E io \in IoOutcomes(config) :
           LET done == extract_embedded_files(document, config, disk, io)
           IN  /\ result' = IF done.returned
                            THEN [op |-> "extract_embedded_files",
                                  returned |-> TRUE, files |-> done.r,
                                  fault |-> io]
                            ELSE Aborted("extract_embedded_files")
               /\ disk' = done.disk
    /\ UNCHANGED <<document, config>>

\* The faults of the two std::fs calls of save_to_disk.
SaveFaults == {"none", "create_dir_all", "write"}

\* The directories save_to_disk is called with.
SaveDirs == {"out", "new/"}

\* `for file in analyzer.extract_embedded_files()? { file.save_to_disk(dir) }`:
\* one of the files just returned is saved by the caller.  `result` keeps the
\* file and the directory next to the io::Result.
SaveToDisk ==
    /\ result.op = "extract_embedded_files"
    /\ result.returned
    /\ result.files.ok
    /\ ~config.extract_to_disk
    /\ \E i \in DOMAIN result.files.v, dir \in SaveDirs, fault \in SaveFaults :
           LET done == save_to_disk(result.files.v[i], dir, disk, fault)
           IN  /\ result' = [op |-> "save_to_disk", returned |-> TRUE,
                             file |-> result.files.v[i], dir |-> dir,
                             io |-> IF done.ok THEN Ok(Null)
                                    ELSE Err("IoError", fault)]
               /\ disk' = done.disk
    /\ UNCHANGED <<document, config>>

\* EmbeddedFile is a public struct: extension() and has_extension() are called
\* on any value of it.  `result` keeps the file (and the argument) next to the
\* value returned.
SampleFilenames ==
    {"a.xml", "A.XML", "a.XmL", "a.xmlx", "readme", ".bashrc", "a.", "a.tar.gz",
     "d.x/readme", "dir/a.xml", "a.xml/", "..", "", "x.xml/..", ".a.xml", "a.b.Xml"}

SampleFiles ==
    [filename : SampleFilenames, data : {""}, metadata : {DefaultMetadata}]

SampleExtensions == {"xml", "XML", "xmlx", "gz", "", "x"}

Extension ==
    /\ Idle
    /\ \E file \in SampleFiles :
           result' = [op |-> "extension", returned |-> TRUE, file |-> file,
                      ext |-> extension(file)]
    /\ UNCHANGED <<document, config, disk>>

HasExtension ==
    /\ Idle
    /\ \E file \in SampleFiles, ext \in SampleExtensions :
           result' = [op |-> "has_extension", returned |-> TRUE, file |-> file,
                      arg |-> ext, has |-> has_extension(file, ext)]
    /\ UNCHANGED <<document, config, disk>>

(***************************************************************************)
(* Spec: extraction over documents with one leaf node.                     *)
(***************************************************************************)
Init ==
    /\ document \in ExtractionDocuments
    /\ config \in ExtractionConfigs
    /\ disk = EmptyDisk
    /\ result = NoResult

Next ==
    \/ has_embedded_files
    \/ count_embedded_files
    \/ ExtractEmbeddedFiles

Spec == Init /\ [][Next]_vars

(***************************************************************************)
(* SpecDiscovery: name trees of any shape, cyclic ones included.           *)
(***************************************************************************)
NodeIds == 2..(1 + MaxNodes)

\* A /Kids reference from one node to another (or to itself).
Edges == [parent : NodeIds, child : NodeIds]

\* The key of the first leaf pair of node n.
NodeKey(n) == "k" \o SubSeq(Digits, n + 1, n + 1)

\* The /Kids array of node n: the children of its edges, in order.
KidsOf(edges, n) ==
    LET mine == SelectSeq(edges, LAMBDA e : e.parent = n)
    IN  [i \in DOMAIN mine |-> Ref(mine[i].child)]

\* Node n: a /Names array with two pairs when n is in `leaves`, a /Kids array
\* when it has children.
TreeNode(edges, leaves, n) ==
    Dict((IF n \in leaves
          THEN [Names |-> Arr(<<Str(NodeKey(n)), Ref(10),
                                Str(NodeKey(n) \o "b"), Ref(10)>>)]
          ELSE EmptyDict)
         @@ (IF KidsOf(edges, n) # <<>>
             THEN [Kids |-> Arr(KidsOf(edges, n))]
             ELSE EmptyDict))

DiscoveryDocument(edges, leaves) ==
    [catalog |-> Ok([Names |-> Dict([EmbeddedFiles |-> Ref(2)])]),
     pages |-> <<30>>,
     trailer |-> [Root |-> Ref(1)],
     objects |-> [n \in NodeIds |-> TreeNode(edges, leaves, n)]
                 @@ (30 :> Dict(EmptyDict))
                 @@ (10 :> FileSpec([kind |-> "data", len |-> 1]))
                 @@ StreamObjects]

DiscoveryDocuments ==
    {DiscoveryDocument(edges, leaves) :
        edges \in SeqsUpTo(Edges, MaxEdges), leaves \in SUBSET NodeIds}

InitDiscovery ==
    /\ document \in DiscoveryDocuments
    /\ config \in {c \in ExtractionConfigs :
                      ~c.extract_to_disk /\ ~c.max_embedded_file_size.some}
    /\ disk = EmptyDisk
    /\ result = NoResult

SpecDiscovery == InitDiscovery /\ [][Next]_vars

(***************************************************************************)
(* SpecValidator: every way the catalog -> Metadata -> stream chain and the *)
(* document structure can be broken.  SpecXmp: XMP packets.                *)
(***************************************************************************)
\* What Document::catalog() returns.
Catalogs ==
    {Err("lopdf", "object not found"),
     Ok(EmptyDict),
     Ok([Metadata |-> Dict(EmptyDict)]),
     Ok([Metadata |-> Ref(40)])}

XmpSamples ==
    {"",
     "<rdf pdfaid:part=\"3\" pdfaid:conformance=\"B\"/>",
     "<pdfaid:part>3</pdfaid:part><pdfaid:conformance>U</pdfaid:conformance>",
     "<rdf pdfaid:part=\"2\" pdfaid:conformance=\"A\"/>",
     "<rdf pdfaid:part=\"3\" pdfaid:conformance=\"b\"/>"}

\* The metadata stream whose decoded content is `bytes`.
XmpStream(bytes) == Stream([Type |-> Name("Metadata")], "enc", Ok(bytes))

\* Object 40: missing, not a stream, a stream that does not decompress, or an
\* XMP stream.
MetadataObjects(texts) ==
    {<<>>,
     40 :> Dict(EmptyDict),
     40 :> Stream(EmptyDict, "enc", Err("lopdf", "invalid stream"))}
    \cup {40 :> XmpStream(x) : x \in texts}

ValidatorDocuments ==
    {[catalog |-> c, pages |-> p, trailer |-> t,
      objects |-> (30 :> Dict(EmptyDict)) @@ m] :
        c \in Catalogs, p \in {<<>>, <<30>>},
        t \in {EmptyDict, [Root |-> Ref(1)]}, m \in MetadataObjects(XmpSamples)}

InitValidator ==
    /\ document \in ValidatorDocuments
    /\ config \in ValidationConfigs
    /\ disk = EmptyDisk
    /\ result = NoResult

NextValidator ==
    \/ is_pdf
    \/ is_pdfa3
    \/ ConformanceLevel

SpecValidator == InitValidator /\ [][NextValidator]_vars

\* The pieces XMP packets are put together from: both serialisations of
\* pdfaid:part and pdfaid:conformance, a lower-case level, an attribute split
\* in two pieces, and a byte that is not UTF-8.
XmpFragments ==
    {"pdfaid:part=\"3\"",
     "<pdfaid:part>3</pdfaid:part>",
     "<pdfaid:part>2</pdfaid:part>",
     "pdfaid:part=\"1\"",
     "pdfaid:conformance=\"B\"",
     "<pdfaid:conformance>U</pdfaid:conformance>",
     "<pdfaid:conformance>A</pdfaid:conformance>",
     "pdfaid:conformance=\"b\"",
     "pdfaid:part=\"",
     "3\"",
     "^"}

RECURSIVE XmpTexts(_)
\* The packets of at most n fragments.
XmpTexts(n) ==
    IF n = 0 THEN {""}
    ELSE XmpTexts(n - 1) \cup {t \o f : t \in XmpTexts(n - 1), f \in XmpFragments}

XmpDocuments ==
    {[catalog |-> c, pages |-> <<30>>, trailer |-> [Root |-> Ref(1)],
      objects |-> (30 :> Dict(EmptyDict)) @@ m] :
        c \in {Ok([Metadata |-> Ref(40)])},
        m \in MetadataObjects(XmpTexts(MaxFrags))}

InitXmp ==
    /\ document \in XmpDocuments
    /\ config \in ValidationConfigs
    /\ disk = EmptyDisk
    /\ result = NoResult

NextXmp ==
    \/ is_pdfa3
    \/ ConformanceLevel

SpecXmp == InitXmp /\ [][NextXmp]_vars

(***************************************************************************)
(* SpecPersist: extraction with persistence, and save_to_disk on the files *)
(* returned.  Specifications 10 and 11 carry filenames that are plain,     *)
(* absolute, nested, or that climb out of the directory.                   *)
(***************************************************************************)
PersistNames == {"a.txt", "/e.txt", "../e.txt", "s/e.txt"}

PersistShapes ==
    [kind : {"data"}, name : PersistNames, len : 1..MaxLen]
    \cup {[kind |-> "absent", name |-> "", len |-> 0]}

\* A file specification named `name` whose stream holds `len` bytes.
NamedFileSpec(shape) ==
    Dict([UF |-> Str(shape.name), EF |-> Dict([F |-> Ref(20 + shape.len)])])

NamedSpecObjects(shape10, shape11) ==
    [id \in {i \in {10, 11} :
                (IF i = 10 THEN shape10 ELSE shape11).kind # "absent"}
        |-> NamedFileSpec(IF id = 10 THEN shape10 ELSE shape11)]

PersistDocument(entries, shape10, shape11) ==
    [catalog |-> Ok([Names |-> Dict([EmbeddedFiles |-> Ref(2)])]),
     pages |-> <<30>>,
     trailer |-> [Root |-> Ref(1)],
     objects |-> (2 :> Dict([Names |-> Arr(Flatten([i \in DOMAIN entries |->
                                                  NamePair(entries[i])]))]))
                 @@ (30 :> Dict(EmptyDict))
                 @@ NamedSpecObjects(shape10, shape11)
                 @@ StreamObjects]

PersistDocuments ==
    {PersistDocument(entries, s10, s11) :
        entries \in SeqsUpTo([key : {"n.bin"}, id : {10, 11}], MaxEntries),
        s10 \in PersistShapes, s11 \in PersistShapes}

PersistConfigs ==
    [strict_pdfa3_validation : {FALSE},
     max_embedded_file_size : {None},
     extract_to_disk : BOOLEAN,
     output_directory : {None, Some("out")}]

\* The file system before the call: empty, or with the output directory, a
\* subdirectory of it and an older a.txt in place.
InitialDisks ==
    {EmptyDisk,
     [dirs |-> {"out", "out/s"}, files |-> ("out/a.txt" :> "old"), writes |-> <<>>]}

InitPersist ==
    /\ document \in PersistDocuments
    /\ config \in PersistConfigs
    /\ disk \in InitialDisks
    /\ result = NoResult

NextPersist ==
    \/ ExtractEmbeddedFiles
    \/ SaveToDisk

SpecPersist == InitPersist /\ [][NextPersist]_vars

(***************************************************************************)
(* SpecEmbedded: the filename helpers of EmbeddedFile.                     *)
(***************************************************************************)
InitEmbedded ==
    /\ document = ExtractionDocument(<<>>, [kind |-> "absent", len |-> 0],
                                     [kind |-> "absent", len |-> 0])
    /\ config \in ValidationConfigs
    /\ disk = EmptyDisk
    /\ result = NoResult

NextEmbedded ==
    \/ Extension
    \/ HasExtension

SpecEmbedded == InitEmbedded /\ [][NextEmbedded]_vars

(***************************************************************************)
(* SpecSources: the two sources of discovery.  Object numbers: 2 the leaf  *)
(* of the name tree, 3 an indirect /Names dictionary, 30 and 31 pages, 32  *)
(* the indirect /Annots array of page 31, 33 to 35 annotations.            *)
(***************************************************************************)
\* The pairs of the leaf, as discovery entries.
SourceEntries == [key : {"n.bin"}, id : {10, 11}]

LeafArray(entries) ==
    Arr(Flatten([i \in DOMAIN entries |-> NamePair(entries[i])]))

\* What Document::catalog() returns: no catalog, no /Names, /Names without
\* /EmbeddedFiles, /Names that is no dictionary, /Names behind a dangling or a
\* valid reference, /EmbeddedFiles as a reference or as an inline leaf.
SourceCatalogs(entries) ==
    {Err("lopdf", "object not found"),
     Ok(EmptyDict),
     Ok([Names |-> Dict(EmptyDict)]),
     Ok([Names |-> Integer(0)]),
     Ok([Names |-> Ref(9)]),
     Ok([Names |-> Ref(3)]),
     Ok([Names |-> Dict([EmbeddedFiles |-> Ref(2)])]),
     Ok([Names |-> Dict([EmbeddedFiles |-> Dict([Names |-> LeafArray(entries)])])])}

\* The items of an /Annots array: two file attachments (of the specifications
\* 10 and 11) and a link.
AnnotItems == {Ref(33), Ref(34), Ref(35)}

AnnotationObjects ==
    (33 :> Dict([Subtype |-> Name("FileAttachment"), FS |-> Ref(10),
                 Contents |-> Str("c.txt")]))
    @@ (34 :> Dict([Subtype |-> Name("FileAttachment"), FS |-> Ref(11),
                    T |-> Str("t")]))
    @@ (35 :> Dict([Subtype |-> Name("Link")]))

\* Page 30 holds `annots` inline (no /Annots when empty); page 31 refers to the
\* array 32 when `second` is set.
SourceDocument(c, entries, pages, annots, second) ==
    [catalog |-> c,
     pages |-> pages,
     trailer |-> [Root |-> Ref(1)],
     objects |-> (2 :> Dict([Names |-> LeafArray(entries)]))
                 @@ (3 :> Dict([EmbeddedFiles |-> Ref(2)]))
                 @@ (30 :> Dict(IF annots = <<>> THEN EmptyDict
                                ELSE [Annots |-> Arr(annots)]))
                 @@ (31 :> Dict(IF second THEN [Annots |-> Ref(32)] ELSE EmptyDict))
                 @@ (32 :> Arr(<<Ref(34), Integer(0), Ref(33)>>))
                 @@ AnnotationObjects
                 @@ (10 :> FileSpec([kind |-> "data", len |-> 1]))
                 @@ (11 :> FileSpec([kind |-> "data", len |-> 0]))
                 @@ StreamObjects]

SourceDocuments ==
    {SourceDocument(c, entries, pages, annots, second) :
        entries \in SeqsUpTo(SourceEntries, MaxEntries),
        c \in UNION {SourceCatalogs(e) : e \in SeqsUpTo(SourceEntries, MaxEntries)},
        pages \in {<<>>, <<30>>, <<30, 31>>, <<31, 30>>},
        annots \in SeqsUpTo(AnnotItems, MaxEntries),
        second \in BOOLEAN}

InitSources ==
    /\ document \in SourceDocuments
    /\ config \in {c \in ExtractionConfigs :
                      ~c.extract_to_disk /\ ~c.max_embedded_file_size.some
                      /\ ~c.output_directory.some}
    /\ disk = EmptyDisk
    /\ result = NoResult

NextSources ==
    \/ has_embedded_files
    \/ count_embedded_files

SpecSources == InitSources /\ [][NextSources]_vars

(***************************************************************************)
(* SpecResolve: one name-tree entry whose specification 10 has every       *)
(* combination of /UF and /F: missing, empty, a string, not a string.      *)
(***************************************************************************)
\* The values of /UF and /F; Null stands for a missing entry.
UnicodeNames == {Null, Str(""), Str("u.xml"), Str("^"), Name("u")}

AsciiNames == {Null, Str(""), Str("f.txt"), Integer(7)}

ResolveDocument(key, uf, f) ==
    [catalog |-> Ok([Names |-> Dict([EmbeddedFiles |-> Ref(2)])]),
     pages |-> <<30>>,
     trailer |-> [Root |-> Ref(1)],
     objects |-> (2 :> Dict([Names |-> Arr(<<Str(key), Ref(10)>>)]))
                 @@ (30 :> Dict(EmptyDict))
                 @@ (10 :> Dict((IF uf = Null THEN EmptyDict ELSE [UF |-> uf])
                                @@ (IF f = Null THEN EmptyDict ELSE [F |-> f])
                                @@ [EF |-> Dict([F |-> Ref(21)])]))
                 @@ StreamObjects]

ResolveDocuments ==
    {ResolveDocument(key, uf, f) :
        key \in {"", "n.bin"}, uf \in UnicodeNames, f \in AsciiNames}

InitResolve ==
    /\ document \in ResolveDocuments
    /\ config \in {c \in ExtractionConfigs :
                      ~c.extract_to_disk /\ ~c.max_embedded_file_size.some
                      /\ ~c.output_directory.some}
    /\ disk = EmptyDisk
    /\ result = NoResult

SpecResolve == InitResolve /\ [][Next]_vars

(***************************************************************************)
(* SpecFileSpec: the name tree lists specification 10 and then 11.  10 has *)
(* every shape of /EF and of the metadata entries; 11 resolves to one byte *)
(* or is missing.  Object numbers: 5 an indirect /EF dictionary, 50 a      *)
(* stream that does not decompress, 51 a dictionary, 52 the stream with    *)
(* the /Params of the metadata documents.                                  *)
(***************************************************************************)
\* The document whose specification 10 is `spec10`, with the objects `extra`;
\* specification 11 is in the object table when `other` is set.
FileSpecDocument(spec10, extra, other) ==
    [catalog |-> Ok([Names |-> Dict([EmbeddedFiles |-> Ref(2)])]),
     pages |-> <<30>>,
     trailer |-> [Root |-> Ref(1)],
     objects |-> (2 :> Dict([Names |-> Arr(<<Str("n.bin"), Ref(10),
                                             Str("m.bin"), Ref(11)>>)]))
                 @@ (30 :> Dict(EmptyDict))
                 @@ (10 :> spec10)
                 @@ (IF other THEN 11 :> FileSpec([kind |-> "data", len |-> 1])
                     ELSE <<>>)
                 @@ extra
                 @@ StreamObjects]

\* /EF with every combination of /UF and /F (Null stands for a missing entry):
\* a reference to a stream, to a stream that does not decompress (its raw
\* content is MaxLen bytes long), to a dictionary, to a missing object, or no
\* reference at all; /EF is stored inline or as the indirect object 5.
EfDocuments ==
    {LET ef == (IF uf = Null THEN EmptyDict ELSE [UF |-> uf])
               @@ (IF f = Null THEN EmptyDict ELSE [F |-> f])
     IN  FileSpecDocument(
             Dict([F |-> Str("t.bin"), EF |-> IF inline THEN Dict(ef) ELSE Ref(5)]),
             (5 :> Dict(ef))
             @@ (50 :> Stream(EmptyDict, Repeat("z", MaxLen),
                              Err("lopdf", "invalid stream")))
             @@ (51 :> Dict(EmptyDict)),
             other) :
        uf \in {Null, Ref(22), Ref(50), Ref(51), Ref(99), Integer(0)},
        f \in {Null, Ref(21), Ref(50)},
        inline \in BOOLEAN, other \in BOOLEAN}

\* Specification 10 with every combination of /Desc and /Subtype, and the
\* stream 52 with every combination of /Params and its entries: missing,
\* present, empty, or of the wrong type.
MetadataDocuments ==
    {LET entry(key, v) == IF v = Null THEN EmptyDict ELSE (key :> v)
     IN  FileSpecDocument(
             Dict(entry("Desc", desc) @@ entry("Subtype", subtype)
                  @@ [F |-> Str("t.bin"), EF |-> Dict([F |-> Ref(52)])]),
             52 :> Stream(entry("Params",
                              IF params = "none" THEN Null
                              ELSE IF params = "int" THEN Integer(1)
                              ELSE Dict(entry("ModDate", mod)
                                        @@ entry("CreationDate", created)
                                        @@ entry("Size", size)
                                        @@ entry("CheckSum", sum))),
                          "enc", Ok("x")),
             TRUE) :
        desc \in {Null, Str(""), Str("d^"), Integer(1)},
        subtype \in {Null, Name("Text#2FXML"), Str("text")},
        params \in {"none", "int", "dict"},
        mod \in {Null, Str("D:2024"), Name("D")},
        created \in {Null, Str("D:2023")},
        size \in {Null, Integer(7), Integer(-1), Str("7")},
        sum \in {Null, Str("a."), Integer(0)}}

InitFileSpec ==
    /\ document \in EfDocuments \cup MetadataDocuments
    /\ config \in ExtractionConfigs
    /\ disk = EmptyDisk
    /\ result = NoResult

SpecFileSpec == InitFileSpec /\ [][Next]_vars

(***************************************************************************)
(* SpecEntries: what discovery makes of malformed leaf arrays, of every    *)
(* kind of annotation, and of values stored inline or indirectly.  Object  *)
(* numbers: 2 the root of the name tree, 3 an indirect /Names dictionary,  *)
(* 4 a kid of the root, 5 an indirect /EF dictionary, 32 an indirect       *)
(* /Annots array, 33 and 34 annotations, 35 an integer.                    *)
(***************************************************************************)
\* The root is a leaf whose /Names array is any sequence of strings,
\* references and integers of up to MaxEntries pairs and a trailing element.
PairDocuments ==
    {[ExtractionDocument(<<>>, [kind |-> "data", len |-> 1],
                         [kind |-> "data", len |-> 0])
         EXCEPT !.objects[2] = Dict([Names |-> Arr(arr)])] :
        arr \in SeqsUpTo({Str("a^"), Ref(10), Ref(11), Integer(0)},
                         2 * MaxEntries + 1)}

\* No name tree; page 30 has an /Annots array (inline, or the object 32) whose
\* items lead to the annotation 33 in every way, and 33 has every combination
\* of /Subtype, /FS, /Contents and /T (Null stands for a missing entry).
AnnotDocuments ==
    {LET entry(key, v) == IF v = Null THEN EmptyDict ELSE (key :> v)
         annot == Dict(entry("Subtype", subtype) @@ entry("FS", fs)
                       @@ entry("Contents", contents) @@ entry("T", title))
         arr == Arr(CASE items = "reference" -> <<Ref(33)>>
                      [] items = "inline" -> <<annot>>
                      [] items = "dangling" -> <<Ref(99), Ref(35)>>
                      [] OTHER -> <<Integer(0), Ref(34), Ref(33)>>)
         base == ExtractionDocument(<<>>, [kind |-> "data", len |-> 1],
                                    [kind |-> "data", len |-> 0])
     IN  [base EXCEPT
             !.catalog = Ok(EmptyDict),
             !.objects = (30 :> Dict([Annots |-> IF inline THEN arr ELSE Ref(32)]))
                         @@ (32 :> arr)
                         @@ (33 :> annot)
                         @@ (34 :> Dict([Subtype |-> Name("FileAttachment"),
                                         FS |-> Ref(11)]))
                         @@ (35 :> Integer(0))
                         @@ @] :
        subtype \in {Null, Name("FileAttachment"), Name("Link"), Str("FileAttachment")},
        fs \in {Null, Ref(10), FileSpec([kind |-> "data", len |-> 1])},
        contents \in {Null, Str(""), Str("c^"), Integer(1)},
        title \in {Null, Str(""), Str("t")},
        items \in {"reference", "inline", "dangling", "mixed"},
        inline \in BOOLEAN}

\* One document content stored in every mix of inline and indirect: the name
\* tree `tree` as /EmbeddedFiles, the /Names dictionary of the catalog, the
\* /Annots array of the page and the /EF dictionary of the specification 10.
InlineDocument(tree, names_inline, tree_inline, annots_inline, ef_inline) ==
    LET names == Dict([EmbeddedFiles |-> IF tree_inline THEN tree ELSE Ref(2)])
        annots == Arr(<<Ref(33)>>)
        ef == Dict([F |-> Ref(21)])
    IN  [catalog |-> Ok([Names |-> IF names_inline THEN names ELSE Ref(3)]),
         pages |-> <<30>>,
         trailer |-> [Root |-> Ref(1)],
         objects |-> (2 :> tree) @@ (3 :> names)
                     @@ (4 :> Dict([Names |-> Arr(<<Str("m.bin"), Ref(11)>>)]))
                     @@ (5 :> ef)
                     @@ (10 :> Dict([F |-> Str("t.bin"),
                                     EF |-> IF ef_inline THEN ef ELSE Ref(5)]))
                     @@ (11 :> FileSpec([kind |-> "data", len |-> 2]))
                     @@ (30 :> Dict([Annots |-> IF annots_inline THEN annots
                                                ELSE Ref(32)]))
                     @@ (32 :> annots)
                     @@ (33 :> Dict([Subtype |-> Name("FileAttachment"),
                                     FS |-> Ref(10)]))
                     @@ StreamObjects]

\* The name tree is a leaf, a leaf with /Kids, or /Kids alone.
InlineDocuments ==
    {InlineDocument(Dict((IF leaf THEN [Names |-> Arr(<<Str("n.bin"), Ref(10)>>)]
                          ELSE EmptyDict)
                         @@ (IF kids THEN [Kids |-> Arr(<<Ref(4)>>)] ELSE EmptyDict)),
                    names_inline, tree_inline, annots_inline, ef_inline) :
        leaf \in BOOLEAN, kids \in BOOLEAN, names_inline \in BOOLEAN,
        tree_inline \in BOOLEAN, annots_inline \in BOOLEAN, ef_inline \in BOOLEAN}

InitEntries ==
    /\ document \in PairDocuments \cup AnnotDocuments \cup InlineDocuments
    /\ config \in {c \in ExtractionConfigs :
                      ~c.extract_to_disk /\ ~c.max_embedded_file_size.some
                      /\ ~c.output_directory.some}
    /\ disk = EmptyDisk
    /\ result = NoResult

SpecEntries == InitEntries /\ [][Next]_vars

(***************************************************************************)
(* SpecConformance: extraction and conformance detection on the same       *)
(* document, with either value of strict_pdfa3_validation.                 *)
(***************************************************************************)
\* Extraction documents without /Metadata in the catalog, or with /Metadata
\* 40 0 R and the object 40 missing, no stream, not decompressible, or XMP
\* that does or does not declare PDF/A-3.
ConformanceDocuments ==
    {[d EXCEPT !.catalog = IF metadata THEN Ok(@.v @@ [Metadata |-> Ref(40)]) ELSE @,
               !.objects = m @@ @] :
        d \in {ExtractionDocument(entries, s10, [kind |-> "data", len |-> 1]) :
                  entries \in SeqsUpTo([key : {"n.bin"}, id : {10, 11}], MaxEntries),
                  s10 \in SpecShapes},
        m \in MetadataObjects(XmpSamples),
        metadata \in BOOLEAN}

InitConformance ==
    /\ document \in ConformanceDocuments
    /\ config \in {[c EXCEPT !.strict_pdfa3_validation = strict] :
                      c \in ExtractionConfigs, strict \in BOOLEAN}
    /\ disk = EmptyDisk
    /\ result = NoResult

SpecConformance == InitConformance /\ [][is_pdfa3 \/ Next]_vars

(***************************************************************************)
(* Properties.                                                             *)
(***************************************************************************)
\* The discovery list of the document.
Discovery == collect_file_specs(document).out

\* The outcome of resolving the i-th discovery entry on its own.
Resolved(i) == parse_file_spec(document, Discovery[i].name, Discovery[i].id)

\* The files of the entries that resolve, one per entry, in discovery order.
ResolvedFiles ==
    LET ok == SelectSeq([i \in DOMAIN Discovery |-> Resolved(i)], LAMBDA r : r.ok)
    IN  [i \in DOMAIN ok |-> ok[i].v]

\* Neither directory nor file is written: extract_to_disk or the directory is
\* missing.
PersistenceDisabled == ~(config.extract_to_disk /\ config.output_directory.some)

Extracted == result.op = "extract_embedded_files" /\ result.returned

\* The call failed with the error `kind`.
Failed(kind) == ~result.r.ok /\ result.r.kind = kind

\* The extraction failed with the error `kind`.
ExtractFailed(kind) == ~result.files.ok /\ result.files.kind = kind

\* C1: with max_embedded_file_size = Some(m) and persistence disabled,
\* extract_embedded_files() fails with FileSizeExceeded exactly when some entry
\* that resolves has more than m bytes of data, whatever resolved before it; a
\* file of exactly m bytes does not trigger the error.
C1_SizeLimitAbortsWholeCall ==
    (Extracted /\ PersistenceDisabled /\ config.max_embedded_file_size.some)
    => (ExtractFailed("FileSizeExceeded")
        <=> \E i \in DOMAIN Discovery :
                /\ Resolved(i).ok
                /\ Len(Resolved(i).v.data) > config.max_embedded_file_size.v)

\* C1 witness: the first entry resolves to exactly m bytes, a later one to more,
\* and the call failed with FileSizeExceeded.
C1_Witness ==
    /\ Extracted /\ PersistenceDisabled /\ config.max_embedded_file_size.some
    /\ ExtractFailed("FileSizeExceeded")
    /\ Len(Discovery) >= 2
    /\ Resolved(1).ok
    /\ Len(Resolved(1).v.data) = config.max_embedded_file_size.v
    /\ Resolved(2).ok
    /\ Len(Resolved(2).v.data) > config.max_embedded_file_size.v

\* C2: with no size limit and persistence disabled, a successful
\* extract_embedded_files() returns exactly the files of the entries that
\* resolve, one per entry (duplicates kept), in discovery order; a failing entry
\* neither stops the later ones nor leaves a placeholder.
C2_FailureIsolation ==
    (Extracted /\ PersistenceDisabled /\ ~config.max_embedded_file_size.some)
    => /\ result.files.ok => result.files.v = ResolvedFiles
       /\ \A i \in DOMAIN Discovery :
              Resolved(i).ok
              => /\ result.files.ok
                 /\ \E j \in DOMAIN result.files.v :
                        result.files.v[j] = Resolved(i).v

\* C2 witness: the first entry fails to resolve, the second resolves, and the
\* call returned the file of the second.
C2_Witness ==
    /\ Extracted /\ PersistenceDisabled /\ ~config.max_embedded_file_size.some
    /\ result.files.ok
    /\ Len(Discovery) >= 2
    /\ ~Resolved(1).ok
    /\ Resolved(2).ok
    /\ result.files.v = <<Resolved(2).v>>

\* C3: with no size limit and persistence disabled, extract_embedded_files()
\* returns NoEmbeddedFiles if and only if the discovery list is empty or no
\* entry resolves; otherwise it returns Ok with a non-empty list.
C3_NoEmbeddedFilesIffNothingResolves ==
    (Extracted /\ PersistenceDisabled /\ ~config.max_embedded_file_size.some)
    => /\ ExtractFailed("NoEmbeddedFiles")
          <=> \A i \in DOMAIN Discovery : ~Resolved(i).ok
       /\ ~ExtractFailed("NoEmbeddedFiles") => (result.files.ok /\ result.files.v # <<>>)

\* C3 witness: entries were discovered, none resolves, and the call returned
\* NoEmbeddedFiles.
C3_Witness ==
    /\ Extracted /\ PersistenceDisabled /\ ~config.max_embedded_file_size.some
    /\ Discovery # <<>>
    /\ \A i \in DOMAIN Discovery : ~Resolved(i).ok
    /\ ExtractFailed("NoEmbeddedFiles")

\* C4 (as claimed): has_embedded_files(), count_embedded_files() and
\* extract_embedded_files() return for every object graph, a name tree whose
\* /Kids references form a cycle included.
C4_DiscoveryAlwaysReturns ==
    result.op \in {"has_embedded_files", "count_embedded_files",
                   "extract_embedded_files"}
    => result.returned

\* C5 (as claimed): every EmbeddedFile returned by extract_embedded_files() has
\* a non-empty filename.
C5_FilenameNeverEmpty ==
    (Extracted /\ result.files.ok)
    => \A i \in DOMAIN result.files.v : result.files.v[i].filename # ""

\* The XMP text of the document, when its metadata stream can be read.
XmpReadable == read_xmp_metadata(document).ok

XmpText == read_xmp_metadata(document).v

\* The two serialisations of a PDF/A identification property, as literals.
DeclaresPart(x, part) ==
    \/ Contains(x, "pdfaid:part=\"" \o part \o "\"")
    \/ Contains(x, "<pdfaid:part>" \o part \o "</pdfaid:part>")

DeclaresLevel(x, level) ==
    \/ Contains(x, "pdfaid:conformance=\"" \o level \o "\"")
    \/ Contains(x, "<pdfaid:conformance>" \o level \o "</pdfaid:conformance>")

DeclaresPdfA3(x) ==
    DeclaresPart(x, "3") /\ \E level \in {"A", "B", "U"} : DeclaresLevel(x, level)

\* C6: with strict validation off and a readable XMP stream, is_pdfa3() returns
\* Ok(true) if and only if the text declares part 3 and a level of {A, B, U},
\* each in attribute or element form, and Ok(false) otherwise.
C6_Pdfa3IffPart3AndLevel ==
    (result.op = "is_pdfa3" /\ ~config.strict_pdfa3_validation /\ XmpReadable)
    => /\ result.r.ok
       /\ result.r.v <=> DeclaresPdfA3(XmpText)

\* C6 witness: part 3 in element form with the level in attribute form (and no
\* attribute-form part) gave Ok(true).
C6_Witness ==
    /\ result.op = "is_pdfa3" /\ ~config.strict_pdfa3_validation /\ XmpReadable
    /\ Contains(XmpText, "<pdfaid:part>3</pdfaid:part>")
    /\ ~Contains(XmpText, "pdfaid:part=\"3\"")
    /\ Contains(XmpText, "pdfaid:conformance=\"B\"")
    /\ result.r = Ok(TRUE)

\* The first part of 3, 2, 1 and the first level of A, B, U the text declares
\* ("" when it declares none).
FirstPart(x) ==
    IF DeclaresPart(x, "3") THEN "3"
    ELSE IF DeclaresPart(x, "2") THEN "2"
    ELSE IF DeclaresPart(x, "1") THEN "1"
    ELSE ""

FirstLevel(x) ==
    IF DeclaresLevel(x, "A") THEN "A"
    ELSE IF DeclaresLevel(x, "B") THEN "B"
    ELSE IF DeclaresLevel(x, "U") THEN "U"
    ELSE ""

\* C7: conformance_level() is Some("PDF/A-" + part + level) for the first part
\* of 3, 2, 1 and the first level of A, B, U that occur, and None when no part
\* or no level occurs or the XMP stream cannot be read; whenever is_pdfa3() is
\* Ok(true) the level string starts with "PDF/A-3".
C7_ConformanceLevelString ==
    /\ result.op = "conformance_level"
       => result.level = IF XmpReadable /\ FirstPart(XmpText) # ""
                        /\ FirstLevel(XmpText) # ""
                     THEN Some("PDF/A-" \o FirstPart(XmpText) \o FirstLevel(XmpText))
                     ELSE None
    /\ (result.op = "is_pdfa3" /\ result.r = Ok(TRUE))
       => /\ conformance_level(document).some
          /\ SubSeq(conformance_level(document).v, 1, 7) = "PDF/A-3"

\* C7 witness: the text declares part 2 as well as part 3, and
\* conformance_level() returned "PDF/A-3B".
C7_Witness ==
    /\ result.op = "conformance_level"
    /\ XmpReadable
    /\ DeclaresPart(XmpText, "2") /\ DeclaresPart(XmpText, "3")
    /\ result.level = Some("PDF/A-3B")

\* C8: with strict_pdfa3_validation, is_pdfa3() never returns Ok(false): a
\* document whose XMP does not declare PDF/A-3 gives Err(NotPdfA3), and
\* Ok(false) without the flag; a conformant document gives Ok(true) either way.
C8_StrictTurnsFalseIntoError ==
    result.op = "is_pdfa3"
    => /\ config.strict_pdfa3_validation => result.r # Ok(FALSE)
       /\ (XmpReadable /\ ~DeclaresPdfA3(XmpText))
          => IF config.strict_pdfa3_validation
             THEN Failed("NotPdfA3")
             ELSE result.r = Ok(FALSE)
       /\ (XmpReadable /\ DeclaresPdfA3(XmpText)) => result.r = Ok(TRUE)

\* C8 witness: strict validation, readable XMP that declares part 2 only, and
\* the call failed with NotPdfA3.
C8_Witness ==
    /\ result.op = "is_pdfa3"
    /\ config.strict_pdfa3_validation
    /\ XmpReadable
    /\ DeclaresPart(XmpText, "2") /\ ~DeclaresPart(XmpText, "3")
    /\ Failed("NotPdfA3")

\* The catalog -> Metadata -> stream -> decompress chain is broken somewhere.
ChainBroken ==
    \/ ~document.catalog.ok
    \/ ~Has(document.catalog.v, "Metadata")
    \/ ~IsRef(document.catalog.v["Metadata"])
    \/ ~HasObject(document, document.catalog.v["Metadata"].id)
    \/ ~IsStream(document.objects[document.catalog.v["Metadata"].id])
    \/ ~document.objects[document.catalog.v["Metadata"].id].dec.ok

\* C9: every failure along the catalog -> Metadata -> stream -> decompress
\* chain makes is_pdfa3() return Err(NotPdfA3), with or without the strict
\* flag; never ParseError, never Ok(false).
C9_ChainFailureIsNotPdfA3 ==
    (result.op = "is_pdfa3" /\ ChainBroken) => Failed("NotPdfA3")

\* C9 witness: a /Metadata reference to a missing object, strict flag off, and
\* the call failed with NotPdfA3.
C9_Witness ==
    /\ result.op = "is_pdfa3"
    /\ ~config.strict_pdfa3_validation
    /\ document.catalog.ok
    /\ Has(document.catalog.v, "Metadata")
    /\ IsRef(document.catalog.v["Metadata"])
    /\ ~HasObject(document, document.catalog.v["Metadata"].id)
    /\ Failed("NotPdfA3")

\* s starts with prefix.
StartsWith(s, prefix) ==
    Len(s) >= Len(prefix) /\ SubSeq(s, 1, Len(prefix)) = prefix

\* C10: is_pdf() checks a resolvable catalog, then a non-empty page list, then
\* a non-empty trailer; it fails with InvalidPdf and the message of the first
\* failing condition, returns Ok(true) when all three hold, never Ok(false).
C10_IsPdfFirstFailureWins ==
    result.op = "is_pdf"
    => /\ result.r # Ok(FALSE)
       /\ IF ~document.catalog.ok
          THEN Failed("InvalidPdf")
               /\ StartsWith(result.r.msg, "missing or invalid catalog")
          ELSE IF document.pages = <<>>
          THEN Failed("InvalidPdf") /\ result.r.msg = "document has no pages"
          ELSE IF DOMAIN document.trailer = {}
          THEN Failed("InvalidPdf") /\ result.r.msg = "missing trailer dictionary"
          ELSE result.r = Ok(TRUE)

\* C10 witness: the catalog resolves, the page list and the trailer are both
\* empty, and the error is the one of the page list.
C10_Witness ==
    /\ result.op = "is_pdf"
    /\ document.catalog.ok
    /\ document.pages = <<>>
    /\ DOMAIN document.trailer = {}
    /\ Failed("InvalidPdf")
    /\ result.r.msg = "document has no pages"

\* The configured output directory, and where a file lands under it.
OutputDir == config.output_directory.v

PersistedPath(dir, file) == canonical(path_join(dir, file.filename))

\* The writes of a persisting extraction that returns `files`: one per file,
\* in the order of the list.
ExpectedWrites(files) ==
    [i \in DOMAIN files |->
        [path |-> PersistedPath(OutputDir, files[i]), data |-> files[i].data]]

\* C11: a step of extract_embedded_files() leaves the file system untouched
\* unless extract_to_disk is true and output_directory is set; with both set, a
\* successful call has created the directory and has written exactly the
\* returned files, each with its data at output_directory joined with its
\* filename, so nothing is written for an entry that failed to resolve.
C11_WritesOnlyWhenConfigured ==
    [][(result'.op = "extract_embedded_files" /\ result'.returned)
       => IF PersistenceDisabled THEN disk' = disk
          ELSE result'.files.ok
               => /\ dir_exists(disk', canonical(OutputDir))
                  /\ disk'.writes = disk.writes \o ExpectedWrites(result'.files.v)
                  /\ result'.files.v = ResolvedFiles]_vars

\* C11 witness: persistence configured on an empty file system, the first
\* entry fails to resolve, the second resolves, and exactly one file is there.
C11_Witness ==
    /\ Extracted /\ ~PersistenceDisabled
    /\ result.files.ok
    /\ Len(Discovery) = 2 /\ ~Resolved(1).ok /\ Resolved(2).ok
    /\ disk.dirs = {"out"}
    /\ Len(disk.writes) = 1
    /\ disk.files = ("out/a.txt" :> Resolved(2).v.data)

\* path names a direct child of the directory dir.
DirectChild(path, dir) ==
    LET d == canonical(dir)
    IN  /\ Len(path) > Len(d) + 1
        /\ SubSeq(path, 1, Len(d) + 1) = d \o "/"
        /\ Separators(SubSeq(path, Len(d) + 2, Len(path))) = {}

\* C12 (as claimed): every file written by extract_embedded_files() or
\* save_to_disk() is a direct child of the directory it was given, whatever
\* the filename: separators, ".." and absolute paths included.
C12_FlatLayout ==
    /\ Extracted /\ ~PersistenceDisabled
       => \A i \in DOMAIN disk.writes : DirectChild(disk.writes[i].path, OutputDir)
    /\ result.op = "save_to_disk"
       => \A i \in DOMAIN disk.writes : DirectChild(disk.writes[i].path, result.dir)

\* The last file of the list that has the filename of the i-th.
LastNamed(files, i) ==
    CHOOSE j \in DOMAIN files :
        /\ files[j].filename = files[i].filename
        /\ \A k \in DOMAIN files : files[k].filename = files[i].filename => k <= j

\* C13: after a successful persisting extraction, the file at each returned
\* filename holds the data of the last returned file of that name, and the
\* returned list still holds every resolved entry.
C13_LastWriterWins ==
    (Extracted /\ ~PersistenceDisabled /\ result.files.ok)
    => /\ \A i \in DOMAIN result.files.v :
              fs_read(disk, path_join(OutputDir, result.files.v[i].filename))
                  = Ok(result.files.v[LastNamed(result.files.v, i)].data)
       /\ result.files.v = ResolvedFiles

\* C13 witness: two files named a.txt with different data were returned, and
\* the file on disk holds the data of the second.
C13_Witness ==
    /\ Extracted /\ ~PersistenceDisabled /\ result.files.ok
    /\ Len(result.files.v) = 2
    /\ result.files.v[1].filename = "a.txt"
    /\ result.files.v[2].filename = "a.txt"
    /\ result.files.v[1].data # result.files.v[2].data
    /\ disk.files["out/a.txt"] = result.files.v[2].data

\* A filename without separators that names neither "." nor "..".
PlainName(name) ==
    name # "" /\ name # "." /\ name # ".." /\ Separators(name) = {}

EndsWithExtension(name, ext) ==
    \E k \in 2..Len(name) :
        /\ SubSeq(name, k, k) = "."
        /\ \A j \in (k + 1)..Len(name) : SubSeq(name, j, j) # "."
        /\ to_ascii_lowercase(SubSeq(name, k + 1, Len(name))) = to_ascii_lowercase(ext)

\* C15: has_extension(ext) is true exactly when the filename has an extension
\* and the whole extension equals ext, ASCII case ignored: true for "a.xml" and
\* "A.XML" with "xml", false for "a.xmlx" and for a filename without extension.
C15_HasExtensionCaseInsensitive ==
    result.op = "has_extension"
    => /\ result.has
          <=> /\ extension(result.file).some
              /\ to_ascii_lowercase(extension(result.file).v)
                     = to_ascii_lowercase(result.arg)
       /\ PlainName(result.file.filename)
          => (result.has <=> EndsWithExtension(result.file.filename, result.arg))
       /\ (result.file.filename \in {"a.xml", "A.XML"} /\ result.arg = "xml")
          => result.has
       /\ (result.file.filename = "a.xmlx" /\ result.arg = "xml") => ~result.has
       /\ result.file.filename = "readme" => ~result.has

\* C15 witness: "A.XML" was asked for "xml" and the answer is true.
C15_Witness ==
    /\ result.op = "has_extension"
    /\ result.file.filename = "A.XML"
    /\ result.arg = "xml"
    /\ result.has

\* C16 (as claimed): extension() returns the extension in lower case for every
\* filename that has one, and None for a filename without extension.
C16_ExtensionLowercase ==
    result.op = "extension"
    => IF PlainName(result.file.filename)
          /\ \E ext \in SampleExtensions :
                 EndsWithExtension(result.file.filename, ext)
       THEN /\ result.ext.some
            /\ result.ext.v = to_ascii_lowercase(result.ext.v)
       ELSE PlainName(result.file.filename) => ~result.ext.some

\* The object an entry stands for: the one a reference leads to, or the
\* entry itself; Null behind a dangling reference.
Deref(o) ==
    IF ~IsRef(o) THEN o
    ELSE IF HasObject(document, o.id) THEN document.objects[o.id]
    ELSE Null

\* The /Annots array of the page p, <<>> when it has none.
AnnotsOf(p) ==
    LET page == Deref(Ref(p))
    IN  IF IsDict(page) /\ Has(page.d, "Annots") /\ IsArr(Deref(page.d["Annots"]))
        THEN Deref(page.d["Annots"]).a
        ELSE <<>>

\* item is a reference to a /FileAttachment annotation with an /FS reference.
IsAttachment(item) ==
    /\ IsRef(item)
    /\ IsDict(Deref(item))
    /\ Has(Deref(item).d, "Subtype")
    /\ Deref(item).d["Subtype"] = Name("FileAttachment")
    /\ Has(Deref(item).d, "FS")
    /\ IsRef(Deref(item).d["FS"])

\* The attachments of the document by position: page index, item index.
AttachmentPositions ==
    UNION {{<<i, j>> : j \in {k \in DOMAIN AnnotsOf(document.pages[i]) :
                                 IsAttachment(AnnotsOf(document.pages[i])[k])}} :
           i \in DOMAIN document.pages}

\* The catalog offers no name tree: it is absent, has no /Names, or its
\* /Names dictionary has no /EmbeddedFiles.
NoNameTree ==
    \/ ~document.catalog.ok
    \/ ~Has(document.catalog.v, "Names")
    \/ /\ IsDict(Deref(document.catalog.v["Names"]))
       /\ ~Has(Deref(document.catalog.v["Names"]).d, "EmbeddedFiles")

\* C17: count_embedded_files() returns Ok(n) with n the length of the
\* discovery list and has_embedded_files() returns Ok(n > 0), never an error;
\* without catalog, /Names or /EmbeddedFiles the name tree contributes nothing
\* and n is the number of file-attachment annotations.
C17_CountAndHasNeverFail ==
    /\ result.op = "count_embedded_files"
       => /\ result.returned
          /\ result.count = Ok(Len(Discovery))
          /\ NoNameTree => result.count = Ok(Cardinality(AttachmentPositions))
    /\ result.op = "has_embedded_files"
       => /\ result.returned
          /\ result.r = Ok(Len(Discovery) > 0)
          /\ NoNameTree => result.r = Ok(AttachmentPositions # {})

\* C17 witness: a catalog without /Names, two attachments on the pages, and
\* count_embedded_files() returned Ok(2).
C17_Witness ==
    /\ result.op = "count_embedded_files"
    /\ document.catalog.ok
    /\ ~Has(document.catalog.v, "Names")
    /\ Cardinality(AttachmentPositions) = 2
    /\ result.count = Ok(2)

\* The attachments of one page as discovery entries, in array order.
PageEntries(p) ==
    LET hits == SelectSeq(AnnotsOf(p), IsAttachment)
    IN  [j \in DOMAIN hits |->
            [name |-> annotation_name(Deref(hits[j]).d),
             id |-> Deref(hits[j]).d["FS"].id]]

\* C18: the discovery list is the entries of the name tree followed by the
\* attachments of the pages, in page order and within a page in array order,
\* one entry per occurrence; count_embedded_files() is its length.
C18_TreeThenAnnotationsNoDedup ==
    result.op = "count_embedded_files"
    => /\ Discovery = collect_from_names_tree(document).out
                      \o Flatten([i \in DOMAIN document.pages |->
                                     PageEntries(document.pages[i])])
       /\ result.count = Ok(Len(collect_from_names_tree(document).out)
                            + Cardinality(AttachmentPositions))

\* C18 witness: specification 10 is listed twice in the name tree and once
\* more by an annotation, and it is counted three times.
C18_Witness ==
    /\ result.op = "count_embedded_files"
    /\ Len(Discovery) = 3
    /\ \A i \in 1..3 : Discovery[i].id = 10
    /\ Discovery[1].name = "n.bin" /\ Discovery[2].name = "n.bin"
    /\ Discovery[3].name = "c.txt"
    /\ result.count = Ok(3)

\* The dictionary of the name-tree node n, its /Kids references and its own
\* /Names pairs.
NodeDict(n) == Deref(Ref(n)).d

KidRefs(n) ==
    IF Has(NodeDict(n), "Kids") THEN NodeDict(n)["Kids"].a ELSE <<>>

OwnPairs(n) ==
    IF ~Has(NodeDict(n), "Names") THEN <<>>
    ELSE LET arr == NodeDict(n)["Names"].a
         IN  [k \in 1..(Len(arr) \div 2) |->
                 [name |-> arr[2 * k - 1].s, id |-> arr[2 * k].id]]

RECURSIVE Descendants(_, _)
\* The nodes reached from n by one to `steps` /Kids references.
Descendants(n, steps) ==
    IF steps = 0 THEN {}
    ELSE LET kids == {KidRefs(n)[i].id : i \in DOMAIN KidRefs(n)}
         IN  kids \cup UNION {Descendants(k, steps - 1) : k \in kids}

\* The root of the name tree: the node /Names /EmbeddedFiles of the catalog
\* refers to.
TreeRoot == Deref(document.catalog.v["Names"]).d["EmbeddedFiles"].id

\* No node of the tree is reachable from itself.
Acyclic ==
    \A n \in {TreeRoot} \cup Descendants(TreeRoot, MaxNodes) :
        n \notin Descendants(n, MaxNodes)

RECURSIVE PreOrder(_, _)
\* The pairs of n, then the pre-order of each kid in /Kids order; `height`
\* bounds the nesting, which an acyclic tree of MaxNodes nodes never exceeds.
PreOrder(n, height) ==
    IF height = 0 THEN <<>>
    ELSE OwnPairs(n)
         \o Flatten([i \in DOMAIN KidRefs(n) |->
                        PreOrder(KidRefs(n)[i].id, height - 1)])

SpecString(key) ==
    LET d == Deref(Ref(10)).d
    IN  IF Has(d, key) /\ IsStr(d[key]) THEN from_utf8_lossy(d[key].s) ELSE ""

\* C20: the filename of the resolved file is the first non-empty string among
\* /UF and /F of the specification, in that priority, and the discovery name
\* when both are empty, missing or no strings.
C20_FilenamePriority ==
    (Extracted /\ result.files.ok /\ Len(Discovery) = 1 /\ Discovery[1].id = 10)
    => /\ Len(result.files.v) = 1
       /\ result.files.v[1].filename =
              IF SpecString("UF") # "" THEN SpecString("UF")
              ELSE IF SpecString("F") # "" THEN SpecString("F")
              ELSE Discovery[1].name

\* C20 witness: /UF and /F are both non-empty strings and /UF was taken.
C20_Witness ==
    /\ Extracted /\ result.files.ok
    /\ Len(Discovery) = 1
    /\ SpecString("UF") = "u.xml"
    /\ SpecString("F") = "f.txt"
    /\ result.files.v[1].filename = "u.xml"

\* The /EF dictionary of the specification 10, behind a reference or inline.
EfOf10 == Deref(Deref(Ref(10)).d["EF"]).d

\* The object the /EF dictionary of 10 names as its data stream: the one of
\* /UF when there is a /UF entry, the one of /F otherwise.
ChosenStream ==
    Deref(IF Has(EfOf10, "UF") THEN EfOf10["UF"] ELSE EfOf10["F"])

\* /UF (or, without /UF, /F) of the /EF dictionary of 10 refers to a stream.
StreamFound ==
    /\ Has(EfOf10, "UF") \/ Has(EfOf10, "F")
    /\ IsRef(IF Has(EfOf10, "UF") THEN EfOf10["UF"] ELSE EfOf10["F"])
    /\ IsStream(ChosenStream)

\* The returned files that stem from the specification 10 (named t.bin).
FilesOf10 == SelectSeq(result.files.v, LAMBDA file : file.filename = "t.bin")

\* The bytes of a stream as resolve takes them: decoded, or raw when the
\* stream does not decompress.
StreamData(st) == IF st.dec.ok THEN st.dec.v ELSE st.content

\* C21: resolve takes the data from the stream of /UF of the /EF dictionary
\* when /EF has a /UF entry and from the one of /F otherwise; with neither
\* entry the resolve fails with ExtractionError for that name, the entry is
\* skipped, and the call returns the files of the other entries when one of
\* them resolves (NoEmbeddedFiles when none does).
C21_StreamFromUfThenF ==
    (Extracted /\ PersistenceDisabled /\ ~config.max_embedded_file_size.some
     /\ Len(Discovery) = 2 /\ Discovery[1].id = 10 /\ Discovery[2].id = 11)
    => /\ StreamFound
          => /\ result.files.ok
             /\ result.files.v[1].filename = "t.bin"
             /\ result.files.v[1].data = StreamData(ChosenStream)
       /\ ~StreamFound
          => IF HasObject(document, 11)
             THEN /\ result.files.ok
                  /\ Len(result.files.v) = 1
                  /\ result.files.v[1].filename = "a.txt"
                  /\ result.files.v[1].data = "x"
             ELSE ExtractFailed("NoEmbeddedFiles")
       /\ (~Has(EfOf10, "UF") /\ ~Has(EfOf10, "F"))
          => /\ ~Resolved(1).ok
             /\ Resolved(1).kind = "ExtractionError"
             /\ Resolved(1).name = Discovery[1].name

\* C21 witness: /EF of the first entry has neither /UF nor /F, the second
\* entry resolves, and the call returned the file of the second alone.
C21_Witness ==
    /\ Extracted /\ PersistenceDisabled /\ ~config.max_embedded_file_size.some
    /\ Len(Discovery) = 2 /\ Discovery[1].id = 10
    /\ IsDict(Deref(Ref(10))) /\ Has(Deref(Ref(10)).d, "EF")
    /\ EfOf10 = EmptyDict
    /\ result.files.ok
    /\ Len(result.files.v) = 1
    /\ result.files.v[1].filename = "a.txt"

Entry(d, key) == IF Has(d, key) THEN d[key] ELSE Null

\* The dictionary of the specification 10, and the /Params dictionary of its
\* data stream (empty when /Params is missing or no dictionary).
SpecDict10 == Deref(Ref(10)).d

ParamsOf10 ==
    IF IsDict(Entry(ChosenStream.d, "Params"))
    THEN ChosenStream.d["Params"].d
    ELSE EmptyDict

\* The metadata field read from a string entry: absent unless it is a string.
StringField(o) == IF IsStr(o) THEN Some(from_utf8_lossy(o.s)) ELSE None

\* The file returned for the specification 10.
File10 == result.files.v[1]

\* C23: whatever /Desc, /Subtype, /Params, /ModDate, /CreationDate, /Size and
\* /CheckSum are (missing, present, of the wrong type), the resolve succeeds
\* when the data stream is found, and every metadata field is determined by
\* its own entry alone: absent when the entry is missing or of the wrong
\* type, its value otherwise.
C23_MetadataNeverFailsResolve ==
    (Extracted /\ PersistenceDisabled /\ ~config.max_embedded_file_size.some
     /\ Len(Discovery) = 2 /\ Discovery[1].id = 10 /\ StreamFound)
    => /\ result.files.ok
       /\ File10.filename = "t.bin"
       /\ File10.data = StreamData(ChosenStream)
       /\ Entry(SpecDict10, "Desc") # Str("")
          => File10.metadata.description = StringField(Entry(SpecDict10, "Desc"))
       /\ File10.metadata.mime_type =
              IF Entry(SpecDict10, "Subtype") = Name("Text#2FXML")
              THEN Some("text2fxml") ELSE None
       /\ File10.metadata.modification_date = StringField(Entry(ParamsOf10, "ModDate"))
       /\ File10.metadata.creation_date = StringField(Entry(ParamsOf10, "CreationDate"))
       /\ File10.metadata.size.some <=> IsInt(Entry(ParamsOf10, "Size"))
       /\ Entry(ParamsOf10, "Size") = Integer(7) => File10.metadata.size = Some(7)
       /\ File10.metadata.checksum =
              IF Entry(ParamsOf10, "CheckSum") = Str("a.") THEN Some("612e") ELSE None

\* C23 witness: /Desc and /Subtype of the wrong type, /Params with a /Size and
\* a /CheckSum but a /ModDate of the wrong type and no /CreationDate; the file
\* was returned with size and checksum alone.
C23_Witness ==
    /\ Extracted /\ PersistenceDisabled /\ ~config.max_embedded_file_size.some
    /\ Len(Discovery) = 2 /\ Discovery[1].id = 10 /\ StreamFound
    /\ Entry(SpecDict10, "Desc") = Integer(1)
    /\ Entry(SpecDict10, "Subtype") = Str("text")
    /\ Entry(ParamsOf10, "ModDate") = Name("D")
    /\ Entry(ParamsOf10, "CreationDate") = Null
    /\ result.files.ok
    /\ File10.metadata =
           [description |-> None, mime_type |-> None, modification_date |-> None,
            creation_date |-> None, size |-> Some(7), checksum |-> Some("612e")]

\* C24 (as claimed): metadata.description is present only when /Desc of the
\* specification is a non-empty string; an empty /Desc leaves it absent.
C24_DescriptionNonEmpty ==
    (Extracted /\ result.files.ok /\ Len(Discovery) = 2 /\ Discovery[1].id = 10
     /\ StreamFound)
    => /\ File10.metadata.description.some
          => /\ IsStr(Entry(SpecDict10, "Desc"))
             /\ File10.metadata.description.v # ""
       /\ Entry(SpecDict10, "Desc") = Str("") => File10.metadata.description = None

\* The catalog refers to a root of the name tree that is a leaf, and no page
\* has annotations.
LeafOnly ==
    /\ document.catalog.ok
    /\ Has(document.catalog.v, "Names")
    /\ IsDict(document.catalog.v["Names"])
    /\ IsRef(Entry(document.catalog.v["Names"].d, "EmbeddedFiles"))
    /\ Has(NodeDict(TreeRoot), "Names")
    /\ ~Has(NodeDict(TreeRoot), "Kids")
    /\ \A i \in DOMAIN document.pages : AnnotsOf(document.pages[i]) = <<>>

\* The pairs of an array at the positions (1, 2), (3, 4), ... whose key is a
\* string and whose value is a reference, in array order.
WellFormedPairs(arr) ==
    LET at == SelectSeq([k \in 1..(Len(arr) \div 2) |-> k],
                        LAMBDA k : IsStr(arr[2 * k - 1]) /\ IsRef(arr[2 * k]))
    IN  [j \in DOMAIN at |->
            [name |-> from_utf8_lossy(arr[2 * at[j] - 1].s), id |-> arr[2 * at[j]].id]]

\* C25: the entries of a leaf array are exactly its pairs at the positions
\* (0,1), (2,3), ... whose key is a string and whose value is a reference, in
\* array order; any other pair and an odd trailing element are skipped
\* without error, and the pairs after a skipped one keep their positions.
C25_MalformedPairsSkippedInPlace ==
    (result.op = "count_embedded_files" /\ LeafOnly)
    => /\ result.returned
       /\ Discovery = WellFormedPairs(NodeDict(TreeRoot)["Names"].a)
       /\ result.count = Ok(Len(WellFormedPairs(NodeDict(TreeRoot)["Names"].a)))

\* C25 witness: the array is [(a) 0 (a) 11 0 R (a)]: the first pair has no
\* reference as its value, the last element has no partner, and the second
\* pair is the one entry.
C25_Witness ==
    /\ result.op = "count_embedded_files" /\ LeafOnly
    /\ NodeDict(TreeRoot)["Names"].a
           = <<Str("a^"), Integer(0), Str("a^"), Ref(11), Str("a^")>>
    /\ result.count = Ok(1)
    /\ Discovery = <<[name |-> "a?", id |-> 11]>>

\* The display name of an annotation dictionary: the first non-empty string
\* of /Contents and /T, else the literal "attachment".
DisplayName(d) ==
    IF StringField(Entry(d, "Contents")) \notin {None, Some("")}
    THEN StringField(Entry(d, "Contents")).v
    ELSE IF StringField(Entry(d, "T")) \notin {None, Some("")}
    THEN StringField(Entry(d, "T")).v
    ELSE "attachment"

\* The entries of the page p: one per item of /Annots that is a reference to
\* a dictionary with /Subtype /FileAttachment and an indirect /FS.
AttachmentEntries(p) ==
    LET hits == SelectSeq(AnnotsOf(p), IsAttachment)
    IN  [j \in DOMAIN hits |->
            [name |-> DisplayName(Deref(hits[j]).d), id |-> Deref(hits[j]).d["FS"].id]]

\* C26: without a name tree, the discovery list holds one entry per annotation
\* reference that leads to a dictionary whose /Subtype is the name
\* FileAttachment and whose /FS is an indirect reference, in page and array
\* order, and nothing for any other item; no item makes the call fail; the
\* name of an entry is the first non-empty string of /Contents and /T, else
\* "attachment".
C26_AnnotationScan ==
    (result.op = "count_embedded_files" /\ NoNameTree)
    => /\ result.returned
       /\ Discovery = Flatten([i \in DOMAIN document.pages |->
                                  AttachmentEntries(document.pages[i])])
       /\ result.count = Ok(Cardinality(AttachmentPositions))

\* C26 witness: an attachment with an empty /Contents and /T (t) behind two
\* items that are skipped; the entry is named t.
C26_Witness ==
    /\ result.op = "count_embedded_files" /\ NoNameTree
    /\ Len(AnnotsOf(30)) = 3
    /\ ~IsRef(AnnotsOf(30)[1])
    /\ IsAttachment(AnnotsOf(30)[3])
    /\ Entry(Deref(AnnotsOf(30)[3]).d, "Contents") = Str("")
    /\ Entry(Deref(AnnotsOf(30)[3]).d, "T") = Str("t")
    /\ result.count = Ok(2)
    /\ Discovery[2] = [name |-> "t", id |-> 10]
    /\ Discovery[1] = [name |-> "attachment", id |-> 11]

\* The document of the same content with /Names, /EmbeddedFiles, /Annots and
\* /EF all stored as indirect objects.
IndirectTwin == InlineDocument(document.objects[2], FALSE, FALSE, FALSE, FALSE)

\* C27 (as claimed): discovery and resolve give the same result whether
\* /Names of the catalog, /EmbeddedFiles, /Annots of a page and /EF of a
\* specification are stored inline or as indirect objects of the same value,
\* an inline /EmbeddedFiles dictionary with /Kids included.
C27_InlineIndirectInterchangeable ==
    document \in InlineDocuments
    => /\ result.op = "count_embedded_files"
          => result.count = Ok(Len(collect_file_specs(IndirectTwin).out))
       /\ result.op = "has_embedded_files"
          => result.r = Ok(collect_file_specs(IndirectTwin).out # <<>>)
       /\ Extracted
          => result.files
                 = extract_embedded_files(IndirectTwin, config, EmptyDisk,
                                          result.fault).r

\* The files of the first n discovery entries that resolve, in order.
ResolvedUpTo(n) ==
    LET ok == SelectSeq([i \in 1..n |-> Resolved(i)], LAMBDA r : r.ok)
    IN  [i \in DOMAIN ok |-> ok[i].v]

\* The i-th discovery entry resolves to more bytes than the limit allows.
Oversized(i) ==
    /\ Resolved(i).ok
    /\ config.max_embedded_file_size.some
    /\ Len(Resolved(i).v.data) > config.max_embedded_file_size.v

\* The i-th discovery entry resolves to a file that cannot be persisted: the
\* operating system fails one of the two calls for it, or its filename is
\* empty, so that the destination is the output directory itself.
PersistFails(i) ==
    /\ Resolved(i).ok
    /\ result.fault.at = i \/ Resolved(i).v.filename = ""

\* The first oversized entry, and the first entry whose persistence fails.
FirstOversized ==
    CHOOSE i \in DOMAIN Discovery :
        Oversized(i) /\ \A j \in 1..(i - 1) : ~Oversized(j)

FirstPersistFailure ==
    CHOOSE i \in DOMAIN Discovery :
        PersistFails(i) /\ \A j \in 1..(i - 1) : ~PersistFails(j)

\* Every write of the log is on disk.
WritesStay == \A i \in DOMAIN disk.writes : disk.writes[i].path \in DOMAIN disk.files

\* C28: when a persisting extract_embedded_files() fails with
\* FileSizeExceeded, the files written are exactly the files of the entries
\* that resolved before the first oversized one, in discovery order: each was
\* checked and written in its turn and stays on disk, the oversized file was
\* not written, and the call returns no files.
C28_SizeCheckInterleavedWithWrites ==
    (Extracted /\ ~PersistenceDisabled /\ ExtractFailed("FileSizeExceeded"))
    => /\ \E i \in DOMAIN Discovery : Oversized(i)
       /\ disk.writes = ExpectedWrites(ResolvedUpTo(FirstOversized - 1))
       /\ WritesStay
       /\ dir_exists(disk, canonical(OutputDir)) <=> disk.writes # <<>>

\* C28 witness: the first entry resolves within the limit and the second is
\* oversized; the call failed with FileSizeExceeded and the first file is on
\* disk.
C28_Witness ==
    /\ Extracted /\ ~PersistenceDisabled /\ ExtractFailed("FileSizeExceeded")
    /\ Len(Discovery) = 2
    /\ Resolved(1).ok /\ ~Oversized(1) /\ Oversized(2)
    /\ Len(disk.writes) = 1
    /\ fs_read(disk, path_join(OutputDir, Resolved(1).v.filename))
           = Ok(Resolved(1).v.data)

\* C29: when the persistence of a resolved, in-limit file fails before any
\* entry is oversized, extract_embedded_files() returns IoError whatever the
\* later entries are; the files written are exactly those of the entries
\* that resolved before it, and they stay on disk.  The call returns IoError
\* in no other case.
C29_IoErrorAborts ==
    (Extracted /\ ~PersistenceDisabled)
    => LET fails == \E i \in DOMAIN Discovery :
                        /\ PersistFails(i)
                        /\ \A j \in 1..i : ~Oversized(j)
       IN  /\ fails <=> ExtractFailed("IoError")
           /\ fails
              => /\ disk.writes = ExpectedWrites(ResolvedUpTo(FirstPersistFailure - 1))
                 /\ WritesStay

\* C29 witness: both entries resolve, the write of the second fails; the call
\* returned IoError and the file of the first entry is on disk.
C29_Witness ==
    /\ Extracted /\ ~PersistenceDisabled
    /\ Len(Discovery) = 2
    /\ Resolved(1).ok /\ Resolved(2).ok
    /\ result.fault = [at |-> 2, fault |-> "write"]
    /\ ExtractFailed("IoError")
    /\ Len(disk.writes) = 1
    /\ fs_read(disk, path_join(OutputDir, Resolved(1).v.filename))
           = Ok(Resolved(1).v.data)

\* The configuration that differs in strict_pdfa3_validation alone.
OtherStrictness == [config EXCEPT !.strict_pdfa3_validation = ~@]

\* C30: has_embedded_files(), count_embedded_files() and
\* extract_embedded_files() return, and write, what they do under the
\* configuration that differs in strict_pdfa3_validation alone, whether or
\* not the document declares PDF/A-3 or has readable XMP; is_pdfa3() differs
\* between the two exactly when the XMP is readable and declares no PDF/A-3.
C30_ExtractionIgnoresStrictFlag ==
    [][/\ result'.op = "extract_embedded_files"
          => LET other == extract_embedded_files(document, OtherStrictness, disk,
                                                 result'.fault)
             IN  /\ other.returned
                 /\ result'.files = other.r
                 /\ disk' = other.disk
       /\ result'.op = "count_embedded_files"
          => /\ result'.returned
             /\ result'.count = Ok(Len(collect_file_specs(document).out))
       /\ result'.op = "has_embedded_files"
          => /\ result'.returned
             /\ result'.r = Ok(collect_file_specs(document).out # <<>>)
       /\ result'.op = "is_pdfa3"
          => (result'.r # validate_pdfa3(document, OtherStrictness)
              <=> XmpReadable /\ ~DeclaresPdfA3(XmpText))]_vars

\* C30 witness: strict validation, a document without readable XMP, and the
\* extraction returned its files.
C30_Witness ==
    /\ Extracted
    /\ config.strict_pdfa3_validation
    /\ ~XmpReadable
    /\ ~validate_pdfa3(document, config).ok
    /\ result.files.ok
    /\ Len(result.files.v) = MaxEntries

====
